---- MODULE Spec2Model ----
(***************************************************************************)
(* tapo-control: command-line control of ONVIF pan-tilt-zoom cameras.      *)
(*                                                                         *)
(* One behaviour of this module is one invocation of one command:          *)
(*   ptz.js       (src/unnamed/part_002)   SpecPtz                         *)
(*   snapshot.js  (src/scripts/snapshot.js) SpecSnapshot                   *)
(*   preset.js    (src/scripts/snapshot.js) SpecPreset                     *)
(*   status.js    (src/scripts/snapshot.js) SpecStatus                     *)
(*   discover.js  (src/unnamed/part_001)                                   *)
(*   any of the five                        SpecCommands                   *)
(*   a call of lib/common.js (part_000)     SpecLib                        *)
(*                                                                         *)
(* Numbers are JavaScript doubles in the source.  Here a number is a       *)
(* record [nan, v] where v counts tenths (0.3 is 3, -0.8 is -8), so the    *)
(* arithmetic the commands do (negation, comparison, Math.round) is exact. *)
(* Command-line values are texts: sequences of one-character strings.      *)
(* JavaScript runs each callback to completion, so one action is the code  *)
(* from one await (or timer) to the next.                                  *)
(***************************************************************************)
EXTENDS Integers, Sequences, FiniteSets, TLC

VARIABLES
    pc,        \* where the invocation stands (the await it is suspended at)
    argv,      \* the parsed command line
    config,    \* what loadConfig and the validity checks found
    device,    \* the camera: what init() discovers and where it points
    trace,     \* every network call, local wait and signal of the invocation, in order
    exitCode,  \* the process's exit code, -1 while it runs
    error,     \* the failure printed on the error stream, "none" if none
    currentStatus, \* ptz: the answer to the status query of an absolute move
    fs,        \* snapshot: the destination path on disk
    proc,      \* snapshot: the external transcoding process and its timer
    res,       \* snapshot: the HTTP response of the direct fetch
    call,      \* library: the function of lib/common.js called, and its arguments
    result,    \* library: what the call returned or threw
    command,   \* which script runs: ptz, snapshot, preset, status, discover
    output,    \* what the command reports of the camera: positions, presets
    failures   \* the device requests that failed: their place in trace, the fault

vars == <<pc, argv, config, device, trace, exitCode, error, currentStatus, fs, proc, res,
         call, result, command, output, failures>>

-----------------------------------------------------------------------------
(* Texts and numbers *)

\* argv.<key> === undefined: the flag was not given.
Undefined == <<"undefined">>

NaN == [nan |-> TRUE, v |-> 0]

Num(n) == [nan |-> FALSE, v |-> n]

DigitChars == {"0", "1", "2", "3", "4", "5", "6", "7", "8", "9"}

DigitVal(c) ==
    CASE c = "0" -> 0 [] c = "1" -> 1 [] c = "2" -> 2 [] c = "3" -> 3
      [] c = "4" -> 4 [] c = "5" -> 5 [] c = "6" -> 6 [] c = "7" -> 7
      [] c = "8" -> 8 [] c = "9" -> 9

DigitChar(n) ==
    CASE n = 0 -> "0" [] n = 1 -> "1" [] n = 2 -> "2" [] n = 3 -> "3"
      [] n = 4 -> "4" [] n = 5 -> "5" [] n = 6 -> "6" [] n = 7 -> "7"
      [] n = 8 -> "8" [] n = 9 -> "9"

\* How many characters of s, from position i on, are decimal digits.
RECURSIVE DigitRun(_, _)
DigitRun(s, i) ==
    IF i <= Len(s) /\ s[i] \in DigitChars THEN 1 + DigitRun(s, i + 1) ELSE 0

\* The value of the n digits of s that start at position i.
RECURSIVE DigitsValue(_, _, _)
DigitsValue(s, i, n) ==
    IF n = 0 THEN 0 ELSE 10 * DigitsValue(s, i, n - 1) + DigitVal(s[i + n - 1])

\* JavaScript's parseFloat on a text without blanks or exponent: an optional
\* sign, digits, an optional point and digits; the longest such prefix is
\* the number, and a text with no digit there is NaN.  The result counts
\* tenths: digits after the first decimal are dropped (the texts used here
\* carry at most one).
parseFloat(s) ==
    LET signLen == IF Len(s) > 0 /\ s[1] \in {"-", "+"} THEN 1 ELSE 0
        neg     == signLen = 1 /\ s[1] = "-"
        nInt    == DigitRun(s, signLen + 1)
        dot     == signLen + nInt + 1
        hasDot  == dot <= Len(s) /\ s[dot] = "."
        nFrac   == IF hasDot THEN DigitRun(s, dot + 1) ELSE 0
        mag     == 10 * DigitsValue(s, signLen + 1, nInt)
                   + (IF nFrac > 0 THEN DigitVal(s[dot + 1]) ELSE 0)
    IN  IF nInt = 0 /\ nFrac = 0 THEN NaN
        ELSE Num(IF neg THEN -mag ELSE mag)

\* The decimal text of a whole number n >= 0.
RECURSIVE NatText(_)
NatText(n) ==
    IF n < 10 THEN <<DigitChar(n)>>
    ELSE Append(NatText(n \div 10), DigitChar(n % 10))

\* The text a camera reports for a position of v tenths ("-0.8", "0.5").
PositionText(v) ==
    LET mag == IF v < 0 THEN -v ELSE v
    IN  (IF v < 0 THEN <<"-">> ELSE <<>>)
        \o NatText(mag \div 10) \o <<".", DigitChar(mag % 10)>>

\* validateRange(value, min, max, name): null, or the error.
Null == "null"

\* validateRange with both bounds exclusive.
validateRange_Exclusive(value, min, max) ==
    IF value.nan THEN "must be a number"
    ELSE IF value.v <= min \/ value.v >= max THEN "must be between"
    ELSE Null

\* validateRange with the lower bound forgotten.
validateRange_NoLower(value, min, max) ==
    IF value.nan THEN "must be a number"
    ELSE IF value.v > max THEN "must be between"
    ELSE Null

validateRange(value, min, max) ==
    IF value.nan THEN "must be a number"
    ELSE IF value.v < min \/ value.v > max THEN "must be between"
    ELSE Null

\* Math.round on a number of tenths: the nearest whole number, halves up.
MathRound(t) == (t + 5) \div 10

\* x || 0 on a number: NaN and 0 are falsy.
OrZero(x) == IF x.nan THEN Num(0) ELSE x

\* JavaScript values of the shared functions: a tag and, for strings and
\* numbers, the text.
UndefinedV == [t |-> "undefined", s |-> <<>>]

NullV == [t |-> "null", s |-> <<>>]

Str(s) == [t |-> "string", s |-> s]

Number(s) == [t |-> "number", s |-> s]

\* What reading a property of null throws.
TypeErrorV == [t |-> "TypeError", s |-> <<>>]

\* x ?? y takes y when x is undefined or null.
Nullish(x) == x.t \in {"undefined", "null"}

\* x || y takes y when x is undefined, null, the empty string or 0.
Falsy(x) ==
    \/ Nullish(x)
    \/ x.t = "string" /\ x.s = <<>>
    \/ x.t = "number" /\ x.s = <<"0">>

\* How many characters of s, from position i on, are blanks.
RECURSIVE BlankRun(_, _)
BlankRun(s, i) ==
    IF i <= Len(s) /\ s[i] = " " THEN 1 + BlankRun(s, i + 1) ELSE 0

\* parseInt(s, 10): leading blanks are skipped, then an optional sign and
\* the longest run of decimal digits; whatever follows is ignored, and a
\* text with no digit there is NaN.  The result counts units.
parseInt(s) ==
    LET nWs     == BlankRun(s, 1)
        signLen == IF nWs + 1 <= Len(s) /\ s[nWs + 1] \in {"-", "+"} THEN 1 ELSE 0
        neg     == signLen = 1 /\ s[nWs + 1] = "-"
        n       == DigitRun(s, nWs + signLen + 1)
        mag     == DigitsValue(s, nWs + signLen + 1, n)
    IN  IF n = 0 THEN NaN ELSE Num(IF neg THEN -mag ELSE mag)

\* String(n) of a whole number.
IntText(n) == IF n < 0 THEN <<"-">> \o NatText(-n) ELSE NatText(n)

-----------------------------------------------------------------------------
(* The inputs of one ptz invocation *)

NoFlags ==
    [help |-> FALSE, stop |-> FALSE, home |-> FALSE,
     left |-> FALSE, right |-> FALSE, up |-> FALSE, down |-> FALSE,
     zoomIn |-> FALSE, zoomOut |-> FALSE,
     pan |-> Undefined, tilt |-> Undefined, zoom |-> Undefined,
     speed |-> Undefined, duration |-> Undefined]

PanTexts == {Undefined, <<"0", ".", "5">>, <<"1", ".", "5">>}

TiltTexts == {Undefined, <<"-", "0", ".", "8">>, <<"a", "b", "c">>}

ZoomTexts == {Undefined, <<"0", ".", "2">>, <<"-", "0", ".", "5">>}

SpeedTexts == {Undefined, <<"0", ".", "3">>, <<"2">>}

DurationTexts == {Undefined, <<"2">>, <<"0", ".", "1">>, <<"4", "0", "0">>}

\* Command lines about the direction flags: every combination of the six
\* flags with stop and home, with or without a pan value beside them.
ArgvDirections ==
    {[NoFlags EXCEPT !.stop = st, !.home = ho, !.left = l, !.right = r,
                     !.up = u, !.down = d, !.zoomIn = zi, !.zoomOut = zo,
                     !.pan = p, !.speed = s, !.duration = du] :
        st \in BOOLEAN, ho \in BOOLEAN, l \in BOOLEAN, r \in BOOLEAN,
        u \in BOOLEAN, d \in BOOLEAN, zi \in BOOLEAN, zo \in BOOLEAN,
        p \in {Undefined, <<"0", ".", "5">>},
        s \in SpeedTexts, du \in DurationTexts}

\* Command lines about the position values: every combination of pan, tilt
\* and zoom texts with stop and home, alone or beside one direction flag.
ArgvPositions ==
    {[NoFlags EXCEPT !.stop = st, !.home = ho, !.left = l, !.zoomOut = zo,
                     !.pan = p, !.tilt = t, !.zoom = z,
                     !.speed = s, !.duration = du] :
        st \in BOOLEAN, ho \in BOOLEAN,
        l \in BOOLEAN, zo \in {FALSE},
        p \in PanTexts, t \in TiltTexts, z \in ZoomTexts,
        s \in SpeedTexts, du \in {Undefined, <<"2">>}}

ArgvHelp ==
    {[NoFlags EXCEPT !.help = TRUE, !.stop = st, !.pan = p] :
        st \in BOOLEAN, p \in {Undefined, <<"1", ".", "5">>}}

ArgvSet == ArgvDirections \cup ArgvPositions \cup ArgvHelp

\* lib/common.js lines 59-60: loadConfig returns when the port text parses
\* to a number from 1 to 65535, and throws otherwise.
portValid ==
    LET port == parseInt(config.port)
    IN  ~(port.nan \/ port.v < 1 \/ port.v > 65535)

\* What loadConfig resolves (line 77): the text of the port that wins, and
\* the address and credentials as the checks of lines 79-84 see them.
ConfigSet ==
    {[port |-> <<"8", "0", "a", "b", "c">>, ipValid |-> TRUE,  hasCredentials |-> TRUE],
     [port |-> <<"2", "0", "2", "0">>, ipValid |-> TRUE,  hasCredentials |-> TRUE],
     [port |-> <<"a", "b", "c">>, ipValid |-> TRUE,  hasCredentials |-> TRUE],
     [port |-> <<"2", "0", "2", "0">>, ipValid |-> FALSE, hasCredentials |-> TRUE],
     [port |-> <<"2", "0", "2", "0">>, ipValid |-> TRUE,  hasCredentials |-> FALSE]}

NoDevice ==
    [connected |-> FALSE, ptz |-> FALSE, profile |-> FALSE,
     pos |-> [x |-> 0, y |-> 0, z |-> 0], moving |-> FALSE,
     snapshotUri |-> FALSE, streamUrl |-> FALSE]

\* The cameras a session can open on: with or without a PTZ service and a
\* current media profile, pointing somewhere.
DevicePositions == {[x |-> 5, y |-> -3, z |-> 2], [x |-> -10, y |-> 10, z |-> 0]}

Devices ==
    {[connected |-> TRUE, ptz |-> p, profile |-> q, pos |-> w, moving |-> FALSE,
      snapshotUri |-> q, streamUrl |-> TRUE] :
        p \in BOOLEAN, q \in BOOLEAN, w \in DevicePositions}

\* Why a request to the camera fails.
Faults == {"ActionNotSupported", "ECONNREFUSED"}

\* What a status query can answer: it throws, answers without data, answers
\* data without the position path, or answers the position.
StatusReplies == {"throw", "nodata", "nopath", "position"}

-----------------------------------------------------------------------------
(* ptz.js, lines 86-97: what the command line asks for *)

DefaultSpeed == 5

DurationMin == 1

DurationMax == 3000

SettleMs == 1000

speed == IF argv.speed # Undefined THEN parseFloat(argv.speed) ELSE Num(DefaultSpeed)

speedErr == validateRange(speed, 0, 10)

hasDuration == argv.duration # Undefined

duration == parseFloat(argv.duration)

durErr == validateRange(duration, DurationMin, DurationMax)

hasAbsoluteMove ==
    argv.pan # Undefined \/ argv.tilt # Undefined \/ argv.zoom # Undefined

hasRelativeMove ==
    argv.left \/ argv.right \/ argv.up \/ argv.down \/ argv.zoomIn \/ argv.zoomOut

\* The intents with home tested before stop.
Intent_HomeFirst ==
    IF argv.home THEN "home"
    ELSE IF argv.stop THEN "stop"
    ELSE IF hasRelativeMove THEN "continuous"
    ELSE IF hasAbsoluteMove THEN "absolute"
    ELSE "none"

\* The intents with the direction flags tested before stop.
Intent_MoveFirst ==
    IF hasRelativeMove THEN "continuous"
    ELSE IF argv.stop THEN "stop"
    ELSE IF argv.home THEN "home"
    ELSE IF hasAbsoluteMove THEN "absolute"
    ELSE "none"

\* Lines 120-235: the intents in the order the code tests them.
Intent ==
    IF argv.stop THEN "stop"
    ELSE IF argv.home THEN "home"
    ELSE IF hasRelativeMove THEN "continuous"
    ELSE IF hasAbsoluteMove THEN "absolute"
    ELSE "none"

\* The velocity with two plain ifs per dimension: opposite flags add up.
velocity_Sum ==
    [x |-> (IF argv.left THEN -speed.v ELSE 0) + (IF argv.right THEN speed.v ELSE 0),
     y |-> (IF argv.up THEN speed.v ELSE 0) + (IF argv.down THEN -speed.v ELSE 0),
     z |-> (IF argv.zoomIn THEN speed.v ELSE 0) + (IF argv.zoomOut THEN -speed.v ELSE 0)]

\* Lines 145-153: the velocity of a continuous move.
velocity ==
    [x |-> IF argv.left THEN -speed.v ELSE IF argv.right THEN speed.v ELSE 0,
     y |-> IF argv.up THEN speed.v ELSE IF argv.down THEN -speed.v ELSE 0,
     z |-> IF argv.zoomIn THEN speed.v ELSE IF argv.zoomOut THEN -speed.v ELSE 0]

\* Lines 155-158: the continuousMove parameters, Timeout only with a duration.
\* The request with the timeout hint whatever the command line.
moveParams_AlwaysTimeout ==
    [op |-> "continuousMove", Velocity |-> velocity,
     hasTimeout |-> TRUE,
     Timeout |-> IF hasDuration THEN MathRound(duration.v) ELSE 0]

moveParams ==
    [op |-> "continuousMove", Velocity |-> velocity,
     hasTimeout |-> hasDuration,
     Timeout |-> IF hasDuration THEN MathRound(duration.v) ELSE 0]

StopRequest == [op |-> "stop", PanTilt |-> TRUE, Zoom |-> TRUE]

HomeRequest == [op |-> "gotoHomePosition"]

StatusRequest == [op |-> "getStatus"]

InitCall == [op |-> "init"]

Wait(ms) == [op |-> "wait", ms |-> ms]

SpeedVector == [x |-> speed.v, y |-> speed.v, z |-> speed.v]

\* Lines 134-138: the fallback of the home intent.
CenterRequest ==
    [op |-> "absoluteMove", Position |-> [x |-> 0, y |-> 0, z |-> 0],
     Speed |-> SpeedVector]

\* Lines 179-190: the current position as the code reads it from the answer
\* r of the status query; 0 on every axis it cannot read.
currentPosition(r) ==
    IF r = "position"
    THEN [x |-> OrZero(parseFloat(PositionText(device.pos.x))),
          y |-> OrZero(parseFloat(PositionText(device.pos.y))),
          z |-> OrZero(parseFloat(PositionText(device.pos.z)))]
    ELSE IF r = "nopath"
    THEN [x |-> OrZero(NaN), y |-> OrZero(NaN), z |-> OrZero(NaN)]
    ELSE [x |-> Num(0), y |-> Num(0), z |-> Num(0)]

\* Lines 192-194: the target of an absolute move.
\* The pan brought into its range instead of being refused.
pan_Clamped(r) ==
    LET asked == IF argv.pan # Undefined THEN parseFloat(argv.pan) ELSE currentPosition(r).x
    IN  IF asked.nan THEN asked
        ELSE IF asked.v > 10 THEN Num(10)
        ELSE IF asked.v < -10 THEN Num(-10)
        ELSE asked

pan(r) == IF argv.pan # Undefined THEN parseFloat(argv.pan) ELSE currentPosition(r).x

\* The tilt target defaulting to 0 instead of the current position.
tilt_Zero(r) == IF argv.tilt # Undefined THEN parseFloat(argv.tilt) ELSE Num(0)

tilt(r) == IF argv.tilt # Undefined THEN parseFloat(argv.tilt) ELSE currentPosition(r).y

zoom(r) == IF argv.zoom # Undefined THEN parseFloat(argv.zoom) ELSE currentPosition(r).z

\* The range check with the zoom forgotten.
positionErr_NoZoom(r) ==
    IF validateRange(pan(r), -10, 10) # Null THEN "Pan"
    ELSE IF validateRange(tilt(r), -10, 10) # Null THEN "Tilt"
    ELSE Null

\* Lines 197-202: the first range error of the target, or null.
positionErr(r) ==
    IF validateRange(pan(r), -10, 10) # Null THEN "Pan"
    ELSE IF validateRange(tilt(r), -10, 10) # Null THEN "Tilt"
    ELSE IF validateRange(zoom(r), 0, 10) # Null THEN "Zoom"
    ELSE Null

\* Lines 208-212.
AbsoluteMoveRequest(r) ==
    [op |-> "absoluteMove",
     Position |-> [x |-> pan(r).v, y |-> tilt(r).v, z |-> zoom(r).v],
     Speed |-> SpeedVector]

-----------------------------------------------------------------------------
(* ptz.js: the invocation *)

Exit(code, err) ==
    /\ pc' = "exit"
    /\ exitCode' = code
    /\ error' = err

Issue(req) == trace' = Append(trace, req)

\* The request sent last failed with f.
Fail(f) == failures' = failures \cup {[at |-> Len(trace), fault |-> f]}

\* A status query answered with a payload of the given kind: it failed when
\* the kind is "throw".
Answered(kind) == IF kind = "throw" THEN Fail("throw") ELSE UNCHANGED failures

\* console.log of a report.
Show(report) == output' = Append(output, report)

\* Lines 29-99 and 103: the synchronous start of the script, up to the
\* session initialisation it awaits.
ptzStart ==
    /\ command = "ptz"
    /\ pc = "start"
    /\ IF argv.help THEN Exit(0, "none") /\ UNCHANGED trace
       ELSE IF ~portValid THEN Exit(1, "Invalid port number") /\ UNCHANGED trace
       ELSE IF ~config.ipValid THEN Exit(1, "Invalid IP address") /\ UNCHANGED trace
       ELSE IF ~config.hasCredentials
       THEN Exit(1, "Username and password are required") /\ UNCHANGED trace
       ELSE IF speedErr # Null THEN Exit(1, "Speed") /\ UNCHANGED trace
       ELSE IF hasDuration /\ durErr # Null THEN Exit(1, "Duration") /\ UNCHANGED trace
       ELSE /\ Issue(InitCall)
            /\ pc' = "init"
            /\ UNCHANGED <<exitCode, error>>
    /\ UNCHANGED <<argv, config, device, currentStatus, fs, proc, res, call, result, command, output, failures>>

\* Lines 120-238: the first request of the intent.
FirstRequest ==
    CASE Intent = "stop" -> StopRequest
      [] Intent = "home" -> HomeRequest
      [] Intent = "continuous" -> moveParams
      [] OTHER -> StatusRequest

\* Lines 103-118, then the dispatch: the session opened on camera d.
controlPTZ_connected ==
    /\ command = "ptz"
    /\ pc = "init"
    /\ \E d \in Devices :
        /\ device' = d
        /\ IF ~d.ptz
           THEN Exit(1, "Camera does not support PTZ") /\ UNCHANGED trace
           ELSE IF ~d.profile
           THEN Exit(1, "No media profile available") /\ UNCHANGED trace
           ELSE /\ Issue(FirstRequest)
                /\ pc' = Intent
                /\ UNCHANGED <<exitCode, error>>
    /\ UNCHANGED <<argv, config, currentStatus, fs, proc, res, call, result, command, output, failures>>

\* Lines 103, 259-262: the session initialisation failed.
controlPTZ_initFailed ==
    /\ command = "ptz"
    /\ pc = "init"
    /\ \E f \in Faults : Exit(1, f) /\ Fail(f)
    /\ UNCHANGED <<argv, config, device, trace, currentStatus, fs, proc, res, call, result, command, output>>

\* Lines 122-124.
controlPTZ_stopped ==
    /\ command = "ptz"
    /\ pc = "stop"
    /\ \/ /\ device' = [device EXCEPT !.moving = FALSE]
          /\ Exit(0, "none")
          /\ UNCHANGED failures
       \/ /\ \E f \in Faults : Exit(1, f) /\ Fail(f)
          /\ UNCHANGED device
    /\ UNCHANGED <<argv, config, trace, currentStatus, fs, proc, res, call, result, command, output>>

\* The home request without its try/catch: a failure is fatal.
controlPTZ_home_NoFallback ==
    /\ command = "ptz"
    /\ pc = "home"
    /\ \/ /\ device' = [device EXCEPT !.pos = [x |-> 0, y |-> 0, z |-> 0]]
          /\ Exit(0, "none")
          /\ UNCHANGED failures
       \/ /\ \E f \in Faults : Exit(1, f) /\ Fail(f)
          /\ UNCHANGED device
    /\ UNCHANGED <<argv, config, trace, currentStatus, fs, proc, res, call, result, command, output>>

\* Lines 129-141: the home request answered; any failure takes the fallback.
controlPTZ_home ==
    /\ command = "ptz"
    /\ pc = "home"
    /\ \/ /\ device' = [device EXCEPT !.pos = [x |-> 0, y |-> 0, z |-> 0]]
          /\ Exit(0, "none")
          /\ UNCHANGED <<trace, failures>>
       \/ /\ \E f \in Faults : Fail(f)
          /\ Issue(CenterRequest)
          /\ pc' = "center"
          /\ UNCHANGED <<device, exitCode, error>>
    /\ UNCHANGED <<argv, config, currentStatus, fs, proc, res, call, result, command, output>>

\* Lines 134-141: the fallback move answered.
controlPTZ_center ==
    /\ command = "ptz"
    /\ pc = "center"
    /\ \/ /\ device' = [device EXCEPT !.pos = [x |-> 0, y |-> 0, z |-> 0]]
          /\ Exit(0, "none")
          /\ UNCHANGED failures
       \/ /\ \E f \in Faults : Exit(1, f) /\ Fail(f)
          /\ UNCHANGED device
    /\ UNCHANGED <<argv, config, trace, currentStatus, fs, proc, res, call, result, command, output>>

\* Lines 164-174: the continuous move answered.
controlPTZ_moving ==
    /\ command = "ptz"
    /\ pc = "continuous"
    /\ \/ /\ device' = [device EXCEPT !.moving = TRUE]
          /\ UNCHANGED failures
          /\ IF hasDuration
             THEN pc' = "sleep" /\ UNCHANGED <<exitCode, error>>
             ELSE Exit(0, "none")
       \/ /\ \E f \in Faults : Exit(1, f) /\ Fail(f)
          /\ UNCHANGED device
    /\ UNCHANGED <<argv, config, trace, currentStatus, fs, proc, res, call, result, command, output>>

\* The stop sent when the timer is set, not when it fires.
controlPTZ_autoStop_NoWait ==
    /\ command = "ptz"
    /\ pc = "sleep"
    /\ trace' = trace \o <<StopRequest, Wait(duration.v * 100)>>
    /\ pc' = "autoStop"
    /\ UNCHANGED <<argv, config, device, exitCode, error, currentStatus, fs, proc, res, call, result, command, output, failures>>

\* Lines 168-169: the local timer of the duration fires, the stop is sent.
controlPTZ_autoStop ==
    /\ command = "ptz"
    /\ pc = "sleep"
    /\ trace' = trace \o <<Wait(duration.v * 100), StopRequest>>
    /\ pc' = "autoStop"
    /\ UNCHANGED <<argv, config, device, exitCode, error, currentStatus, fs, proc, res, call, result, command, output, failures>>

\* Lines 169-174.
controlPTZ_autoStopped ==
    /\ command = "ptz"
    /\ pc = "autoStop"
    /\ \/ /\ device' = [device EXCEPT !.moving = FALSE]
          /\ Exit(0, "none")
          /\ UNCHANGED failures
       \/ /\ \E f \in Faults : Exit(1, f) /\ Fail(f)
          /\ UNCHANGED device
    /\ UNCHANGED <<argv, config, trace, currentStatus, fs, proc, res, call, result, command, output>>

\* Lines 179-212: the status query of an absolute move answered r.
controlPTZ_absolute ==
    /\ command = "ptz"
    /\ pc = "absolute"
    /\ \E r \in StatusReplies :
        /\ currentStatus' = r
        /\ Answered(r)
        /\ IF positionErr(r) # Null
           THEN Exit(1, positionErr(r)) /\ UNCHANGED trace
           ELSE /\ Issue(AbsoluteMoveRequest(r))
                /\ pc' = "move"
                /\ UNCHANGED <<exitCode, error>>
    /\ UNCHANGED <<argv, config, device, fs, proc, res, call, result, command, output>>

\* Lines 208-217: the absolute move answered.
controlPTZ_moved ==
    /\ command = "ptz"
    /\ pc = "move"
    /\ \/ /\ device' = [device EXCEPT !.pos = trace[Len(trace)].Position]
          /\ pc' = "settle"
          /\ UNCHANGED <<exitCode, error, failures>>
       \/ /\ \E f \in Faults : Exit(1, f) /\ Fail(f)
          /\ UNCHANGED device
    /\ UNCHANGED <<argv, config, trace, currentStatus, fs, proc, res, call, result, command, output>>

\* Lines 217-219: the settle interval is over, the position is queried again.
controlPTZ_settled ==
    /\ command = "ptz"
    /\ pc = "settle"
    /\ trace' = trace \o <<Wait(SettleMs), StatusRequest>>
    /\ pc' = "requery"
    /\ UNCHANGED <<argv, config, device, exitCode, error, currentStatus, fs, proc, res, call, result, command, output, failures>>

\* What a status query answers to the code that shows a position: it
\* throws; it answers null, no data, data without the position path, or a
\* position whose pan, tilt and zoom attributes are each there or not.
NoPayload == [kind |-> "nodata", x |-> Undefined, y |-> Undefined, z |-> Undefined]

StatusPayloads ==
    {[NoPayload EXCEPT !.kind = k] : k \in {"throw", "null", "nodata", "nopath"}}
    \cup {[kind |-> "position", x |-> x, y |-> y, z |-> z] :
            x \in {Undefined, <<"0", ".", "5">>},
            y \in {Undefined, <<"-", "0", ".", "3">>},
            z \in {Undefined, <<"0", ".", "2">>}}

\* parseFloat of an attribute that may be missing: parseFloat(undefined) is
\* NaN.
parseFloatAttr(v) == IF v = Undefined THEN NaN ELSE parseFloat(v)

Report(kind, px, py, pz) ==
    [op |-> "report", kind |-> kind, pan |-> px, tilt |-> py, zoom |-> pz]

\* ptz.js lines 238-254 and status.js lines 616-640: what is printed for the
\* answer s of the status query: the three components when the pan parses,
\* "Position data not available" otherwise, the failure when the query threw.
position(s) ==
    IF s.kind = "throw" THEN Report("failed", NaN, NaN, NaN)
    ELSE IF s.kind \in {"null", "nodata"} THEN Report("unavailable", NaN, NaN, NaN)
    ELSE LET px == IF s.kind = "position" THEN parseFloatAttr(s.x) ELSE NaN
             py == IF s.kind = "position" THEN parseFloatAttr(s.y) ELSE NaN
             pz == IF s.kind = "position" THEN parseFloatAttr(s.z) ELSE NaN
         IN  IF ~px.nan THEN Report("position", px, py, pz)
             ELSE Report("unavailable", NaN, NaN, NaN)

\* The second query with a failure that ends the command.
controlPTZ_requeried_Fatal ==
    /\ command = "ptz"
    /\ pc = "requery"
    /\ \E s \in StatusPayloads :
        /\ Answered(s.kind)
        /\ IF position(s).kind = "position"
           THEN Show(position(s))
           ELSE UNCHANGED output
        /\ IF s.kind = "throw" THEN Exit(1, "throw") ELSE Exit(0, "none")
    /\ UNCHANGED <<argv, config, device, trace, currentStatus, fs, proc, res, call, result, command>>

\* Lines 218-232: the second query answered: the new position is printed
\* when its pan parses, nothing otherwise; whatever the answer, the command
\* succeeds.
controlPTZ_requeried ==
    /\ command = "ptz"
    /\ pc = "requery"
    /\ \E s \in StatusPayloads :
        /\ Answered(s.kind)
        /\ IF position(s).kind = "position"
           THEN Show(position(s))
           ELSE UNCHANGED output
    /\ Exit(0, "none")
    /\ UNCHANGED <<argv, config, device, trace, currentStatus, fs, proc, res, call, result, command>>

\* Lines 236-257: no intent; the position is shown, read failures inline, and
\* the script ends without an error.
controlPTZ_shown ==
    /\ command = "ptz"
    /\ pc = "none"
    /\ \E s \in StatusPayloads : Show(position(s)) /\ Answered(s.kind)
    /\ Exit(0, "none")
    /\ UNCHANGED <<argv, config, device, trace, currentStatus, fs, proc, res, call, result, command>>

NoFile == [exists |-> FALSE, origin |-> "none", size |-> 0]

NoProc == [state |-> "none", written |-> 0]

NoRes == [state |-> "none", statusCode |-> 0, chunks |-> 0]

NoCall == [fn |-> "none"]

NoResult == [done |-> FALSE]

InitPtz ==
    /\ pc = "start"
    /\ argv \in ArgvSet
    /\ config \in ConfigSet
    /\ device = NoDevice
    /\ trace = <<>>
    /\ exitCode = -1
    /\ error = "none"
    /\ currentStatus = "none"
    /\ fs = NoFile
    /\ proc = NoProc
    /\ res = NoRes
    /\ call = NoCall
    /\ result = NoResult
    /\ command = "ptz"
    /\ output = <<>>
    /\ failures = {}

NextPtz ==
    \/ ptzStart
    \/ controlPTZ_connected
    \/ controlPTZ_initFailed
    \/ controlPTZ_stopped
    \/ controlPTZ_home
    \/ controlPTZ_center
    \/ controlPTZ_moving
    \/ controlPTZ_autoStop
    \/ controlPTZ_autoStopped
    \/ controlPTZ_absolute
    \/ controlPTZ_moved
    \/ controlPTZ_settled
    \/ controlPTZ_requeried
    \/ controlPTZ_shown

SpecPtz == InitPtz /\ [][NextPtz]_vars

-----------------------------------------------------------------------------
(* snapshot.js *)

\* How many chunks the transcoding process writes at most, and how many a
\* file left by an earlier run holds.
MaxChunks == 2

OldFile == [exists |-> TRUE, origin |-> "old", size |-> 1]

SnapshotArgvSet ==
    {[help |-> h, method |-> m, output |-> o] :
        h \in BOOLEAN, m \in {"rtsp", "onvif", "ftp"}, o \in BOOLEAN}

\* The address and credentials loadConfig resolved, and whether an ffmpeg
\* binary answers on the PATH.
SnapshotConfigSet ==
    {[port |-> <<"8", "0", "a", "b", "c">>, ipValid |-> TRUE,  hasCredentials |-> TRUE,  ffmpeg |-> TRUE],
     [port |-> <<"2", "0", "2", "0">>, ipValid |-> TRUE,  hasCredentials |-> TRUE,  ffmpeg |-> TRUE],
     [port |-> <<"2", "0", "2", "0">>, ipValid |-> TRUE,  hasCredentials |-> TRUE,  ffmpeg |-> FALSE],
     [port |-> <<"a", "b", "c">>, ipValid |-> TRUE,  hasCredentials |-> TRUE,  ffmpeg |-> TRUE],
     [port |-> <<"2", "0", "2", "0">>, ipValid |-> FALSE, hasCredentials |-> TRUE,  ffmpeg |-> TRUE],
     [port |-> <<"2", "0", "2", "0">>, ipValid |-> TRUE,  hasCredentials |-> FALSE, ffmpeg |-> TRUE]}

\* The cameras a snapshot session can open on: with or without a current
\* profile, a snapshot URI in it, and a stream URL.
SnapshotDevices ==
    {[connected |-> TRUE, ptz |-> TRUE, profile |-> q,
      pos |-> [x |-> 0, y |-> 0, z |-> 0], moving |-> FALSE,
      snapshotUri |-> q /\ u, streamUrl |-> st] :
        q \in BOOLEAN, u \in BOOLEAN, st \in BOOLEAN}

\* The status codes the snapshot endpoint answers with, on both sides of the
\* two tests of line 135.
StatusCodes == {199, 200, 299, 300, 404}

\* Lines 270-276: the catch of captureSnapshot: the error is printed, the
\* destination is removed if it exists, and the process exits 1.
\* The catch without the removal of the destination.
captureSnapshot_catch_NoUnlink(err, file) ==
    /\ fs' = file
    /\ Exit(1, err)

\* file is the destination as the failed attempt left it.
captureSnapshot_catch(err, file) ==
    /\ fs' = IF file.exists THEN NoFile ELSE file
    /\ Exit(1, err)

\* Lines 37-127 and 153/195: the synchronous start of the script, up to the
\* session initialisation it awaits.
snapshotStart ==
    /\ command = "snapshot"
    /\ pc = "start"
    /\ IF argv.help THEN Exit(0, "none") /\ UNCHANGED trace
       ELSE IF ~portValid THEN Exit(1, "Invalid port number") /\ UNCHANGED trace
       ELSE IF ~config.ipValid THEN Exit(1, "Invalid IP address") /\ UNCHANGED trace
       ELSE IF ~config.hasCredentials
       THEN Exit(1, "Username and password are required") /\ UNCHANGED trace
       ELSE IF ~argv.output THEN Exit(1, "Output path is required") /\ UNCHANGED trace
       ELSE IF argv.method \notin {"rtsp", "onvif"}
       THEN Exit(1, "Invalid method") /\ UNCHANGED trace
       ELSE IF argv.method = "rtsp" /\ ~config.ffmpeg
       THEN Exit(1, "ffmpeg is not installed") /\ UNCHANGED trace
       ELSE /\ Issue(InitCall)
            /\ pc' = "init"
            /\ UNCHANGED <<exitCode, error>>
    /\ UNCHANGED <<argv, config, device, currentStatus, fs, proc, res, call, result, command, output, failures>>

\* Lines 153/195, 270-276: the session initialisation failed.
captureSnapshot_initFailed ==
    /\ command = "snapshot"
    /\ pc = "init"
    /\ \E f \in Faults : captureSnapshot_catch(f, fs) /\ Fail(f)
    /\ UNCHANGED <<argv, config, device, trace, currentStatus, proc, res, call, result, command, output>>

\* Lines 153-179, 134: the session opened; the snapshot URL is the profile's,
\* or the fallback, and the GET is sent.
captureViaOnvif_connected ==
    /\ command = "snapshot"
    /\ pc = "init"
    /\ argv.method = "onvif"
    /\ \E d \in SnapshotDevices :
        /\ device' = d
        /\ Issue([op |-> "httpGet",
                  url |-> IF d.snapshotUri THEN "profile" ELSE "fallback"])
    /\ res' = [state |-> "pending", statusCode |-> 0, chunks |-> 0]
    /\ pc' = "fetch"
    /\ UNCHANGED <<argv, config, exitCode, error, currentStatus, fs, proc, call, result, command, output, failures>>

\* The response callback taking every status for a success.
fetchUrl_response_AnyStatus ==
    /\ command = "snapshot"
    /\ pc = "fetch"
    /\ res.state = "pending"
    /\ \E st \in StatusCodes :
        /\ Issue([op |-> "response", statusCode |-> st])
        /\ res' = [res EXCEPT !.state = "open", !.statusCode = st]
        /\ UNCHANGED <<pc, exitCode, error, fs>>
    /\ UNCHANGED <<argv, config, device, currentStatus, proc, call, result, command, output, failures>>

\* Lines 134-142, 270-276: the response headers arrive.  A status outside
\* 200..299 rejects the promise, and the catch of captureSnapshot runs;
\* otherwise the body is collected.
fetchUrl_response ==
    /\ command = "snapshot"
    /\ pc = "fetch"
    /\ res.state = "pending"
    /\ \E st \in StatusCodes :
        /\ Issue([op |-> "response", statusCode |-> st])
        /\ IF st < 200 \/ st >= 300
           THEN /\ res' = [res EXCEPT !.state = "rejected", !.statusCode = st]
                /\ captureSnapshot_catch("HTTP status from snapshot endpoint", fs)
           ELSE /\ res' = [res EXCEPT !.state = "open", !.statusCode = st]
                /\ UNCHANGED <<pc, exitCode, error, fs>>
    /\ UNCHANGED <<argv, config, device, currentStatus, proc, call, result, command, output, failures>>

\* Line 140: a chunk of the body arrives and is kept.
fetchUrl_data ==
    /\ command = "snapshot"
    /\ pc = "fetch"
    /\ res.state = "open"
    /\ res.chunks < MaxChunks
    /\ Issue([op |-> "resData"])
    /\ res' = [res EXCEPT !.chunks = @ + 1]
    /\ UNCHANGED <<pc, argv, config, device, exitCode, error, currentStatus, fs, proc, call, result, command, output, failures>>

\* Lines 142, 144, 270-276: the request or the response fails in transport.
fetchUrl_error ==
    /\ command = "snapshot"
    /\ pc = "fetch"
    /\ res.state \in {"pending", "open"}
    /\ Issue([op |-> "resError"])
    /\ res' = [res EXCEPT !.state = "failed"]
    /\ captureSnapshot_catch("ECONNRESET", fs)
    /\ UNCHANGED <<argv, config, device, currentStatus, proc, call, result, command, output, failures>>

\* Lines 145-148, 270-276: the request timeout fires: the request is
\* destroyed and the promise rejected.
fetchUrl_timeout ==
    /\ command = "snapshot"
    /\ pc = "fetch"
    /\ res.state \in {"pending", "open"}
    /\ trace' = trace \o <<[op |-> "reqTimeout"], [op |-> "destroy"]>>
    /\ res' = [res EXCEPT !.state = "destroyed"]
    /\ captureSnapshot_catch("Snapshot request timed out", fs)
    /\ UNCHANGED <<argv, config, device, currentStatus, proc, call, result, command, output, failures>>

\* Lines 141, 179-183, 270-276: the body ended with nothing in it.
captureViaOnvif_empty ==
    /\ command = "snapshot"
    /\ pc = "fetch"
    /\ res.state = "open"
    /\ res.chunks = 0
    /\ Issue([op |-> "resEnd"])
    /\ res' = [res EXCEPT !.state = "ended"]
    /\ captureSnapshot_catch("Empty response from snapshot endpoint", fs)
    /\ UNCHANGED <<argv, config, device, currentStatus, proc, call, result, command, output, failures>>

\* The continuation writing whatever arrived, an empty body included.
captureViaOnvif_saved_NoEmptyTest ==
    /\ command = "snapshot"
    /\ pc = "fetch"
    /\ res.state = "open"
    /\ trace' = trace \o <<[op |-> "resEnd"], [op |-> "writeFile", size |-> res.chunks]>>
    /\ res' = [res EXCEPT !.state = "ended"]
    /\ fs' = [exists |-> TRUE, origin |-> "new", size |-> res.chunks]
    /\ Exit(0, "none")
    /\ UNCHANGED <<argv, config, device, currentStatus, proc, call, result, command, output, failures>>

\* Lines 141, 179-192, 269: the body ended, the chunks are concatenated and
\* written to the destination in one call.
captureViaOnvif_saved ==
    /\ command = "snapshot"
    /\ pc = "fetch"
    /\ res.state = "open"
    /\ res.chunks > 0
    /\ trace' = trace \o <<[op |-> "resEnd"], [op |-> "writeFile", size |-> res.chunks]>>
    /\ res' = [res EXCEPT !.state = "ended"]
    /\ fs' = [exists |-> TRUE, origin |-> "new", size |-> res.chunks]
    /\ Exit(0, "none")
    /\ UNCHANGED <<argv, config, device, currentStatus, proc, call, result, command, output, failures>>

\* Lines 185, 270-276: writeFileSync throws with a part of the body on disk.
captureViaOnvif_writeFailed ==
    /\ command = "snapshot"
    /\ pc = "fetch"
    /\ res.state = "open"
    /\ res.chunks > 0
    /\ trace' = trace \o <<[op |-> "resEnd"], [op |-> "writeFile", size |-> res.chunks]>>
    /\ res' = [res EXCEPT !.state = "ended"]
    /\ captureSnapshot_catch("ENOSPC", [exists |-> TRUE, origin |-> "new", size |-> res.chunks - 1])
    /\ UNCHANGED <<argv, config, device, currentStatus, proc, call, result, command, output, failures>>

\* Lines 195-248: the session opened; the stream URL is the device's or the
\* fallback; the transcoding process is started and the timer armed.
captureViaRtsp_connected ==
    /\ command = "snapshot"
    /\ pc = "init"
    /\ argv.method = "rtsp"
    /\ \E d \in SnapshotDevices :
        /\ device' = d
        /\ Issue([op |-> "ffmpeg",
                  url |-> IF d.streamUrl THEN "device" ELSE "fallback"])
    /\ proc' = [state |-> "running", written |-> 0]
    /\ pc' = "race"
    /\ UNCHANGED <<argv, config, exitCode, error, currentStatus, fs, res, call, result, command, output, failures>>

\* The transcoding process writes a chunk of the image to the destination.
ffmpeg_write ==
    /\ command = "snapshot"
    /\ proc.state = "running"
    /\ proc.written < MaxChunks
    /\ proc' = [proc EXCEPT !.written = @ + 1]
    /\ fs' = [exists |-> TRUE, origin |-> "new", size |-> proc.written + 1]
    /\ UNCHANGED <<pc, argv, config, device, trace, exitCode, error, currentStatus, res, call, result, command, output, failures>>

\* The transcoding process exits: with status 0, or with an error.
ffmpeg_exit ==
    /\ command = "snapshot"
    /\ proc.state = "running"
    /\ \E st \in {"ended", "failed"} : proc' = [proc EXCEPT !.state = st]
    /\ UNCHANGED <<pc, argv, config, device, trace, exitCode, error, currentStatus, fs, res, call, result, command, output, failures>>

\* Lines 235-238, 250-259, 269: the 'end' event resolves the promise; the
\* capture succeeded if the destination exists.
captureViaRtsp_end ==
    /\ command = "snapshot"
    /\ pc = "race"
    /\ proc.state = "ended"
    /\ Issue([op |-> "end"])
    /\ IF fs.exists
       THEN Exit(0, "none") /\ UNCHANGED fs
       ELSE captureSnapshot_catch("Snapshot file was not created", fs)
    /\ UNCHANGED <<argv, config, device, currentStatus, proc, res, call, result, command, output, failures>>

\* Lines 239-241, 270-276: the 'error' event rejects the promise.
captureViaRtsp_error ==
    /\ command = "snapshot"
    /\ pc = "race"
    /\ proc.state = "failed"
    /\ Issue([op |-> "error"])
    /\ captureSnapshot_catch("FFmpeg error", fs)
    /\ UNCHANGED <<argv, config, device, currentStatus, proc, res, call, result, command, output, failures>>

\* The timer rejecting the promise without killing the process.
captureViaRtsp_timeout_NoKill ==
    /\ command = "snapshot"
    /\ pc = "race"
    /\ trace' = Append(trace, [op |-> "timeout"])
    /\ captureSnapshot_catch("Snapshot capture timeout", fs)
    /\ UNCHANGED <<argv, config, device, currentStatus, proc, res, call, result, command, output, failures>>

\* The timer armed when the process ends, not when it starts.
captureViaRtsp_timeout_AfterProcess ==
    /\ command = "snapshot"
    /\ pc = "race"
    /\ proc.state # "running"
    /\ trace' = trace \o <<[op |-> "timeout"], [op |-> "kill", signal |-> "SIGKILL"]>>
    /\ UNCHANGED proc
    /\ captureSnapshot_catch("Snapshot capture timeout", fs)
    /\ UNCHANGED <<argv, config, device, currentStatus, res, call, result, command, output, failures>>

\* Lines 244-247, 270-276: the timer fires first: the process is sent
\* SIGKILL and the promise rejected.
captureViaRtsp_timeout ==
    /\ command = "snapshot"
    /\ pc = "race"
    /\ trace' = trace \o <<[op |-> "timeout"], [op |-> "kill", signal |-> "SIGKILL"]>>
    /\ proc' = [proc EXCEPT !.state = IF @ = "running" THEN "killed" ELSE @]
    /\ captureSnapshot_catch("Snapshot capture timeout", fs)
    /\ UNCHANGED <<argv, config, device, currentStatus, res, call, result, command, output, failures>>

InitSnapshot ==
    /\ pc = "start"
    /\ argv \in SnapshotArgvSet
    /\ config \in SnapshotConfigSet
    /\ device = NoDevice
    /\ trace = <<>>
    /\ exitCode = -1
    /\ error = "none"
    /\ currentStatus = "none"
    /\ fs \in {NoFile, OldFile}
    /\ proc = NoProc
    /\ res = NoRes
    /\ call = NoCall
    /\ result = NoResult
    /\ command = "snapshot"
    /\ output = <<>>
    /\ failures = {}

NextSnapshot ==
    \/ snapshotStart
    \/ captureSnapshot_initFailed
    \/ captureViaOnvif_connected
    \/ fetchUrl_response
    \/ fetchUrl_data
    \/ fetchUrl_error
    \/ fetchUrl_timeout
    \/ captureViaOnvif_empty
    \/ captureViaOnvif_saved
    \/ captureViaOnvif_writeFailed
    \/ captureViaRtsp_connected
    \/ ffmpeg_write
    \/ ffmpeg_exit
    \/ captureViaRtsp_end
    \/ captureViaRtsp_error
    \/ captureViaRtsp_timeout

SpecSnapshot == InitSnapshot /\ [][NextSnapshot]_vars

-----------------------------------------------------------------------------
(* Properties of the ptz command (SpecPtz) *)

\* The session opened with a PTZ service and a current profile.
SessionOpen == device.connected /\ device.ptz /\ device.profile

TraceOps == {trace[i].op : i \in 1..Len(trace)}

Count(op) == Cardinality({i \in 1..Len(trace) : trace[i].op = op})

AnyDirection ==
    argv.left \/ argv.right \/ argv.up \/ argv.down \/ argv.zoomIn \/ argv.zoomOut

AnyPosition == argv.pan # Undefined \/ argv.tilt # Undefined \/ argv.zoom # Undefined

\* C1: once the session is open, only the highest intent present is carried
\* out, in the order stop > home > continuous move > absolute move > none:
\* with stop no home, continuous or absolute move is requested; with home
\* (and no stop) the home request is sent and no continuous move; with a
\* direction flag (and no stop or home) the continuous move is sent and no
\* absolute move, whatever pan, tilt or zoom say; with position values only,
\* only status queries and the absolute move; with no intent exactly one
\* status query and nothing else.
C1_IntentPriority ==
    SessionOpen =>
        /\ argv.stop => TraceOps \subseteq {"init", "stop"}
        /\ (argv.home /\ ~argv.stop) =>
              /\ TraceOps \subseteq {"init", "gotoHomePosition", "absoluteMove"}
              /\ trace[2].op = "gotoHomePosition"
        /\ (AnyDirection /\ ~argv.stop /\ ~argv.home) =>
              /\ TraceOps \subseteq {"init", "continuousMove", "wait", "stop"}
              /\ trace[2].op = "continuousMove"
        /\ (AnyPosition /\ ~AnyDirection /\ ~argv.stop /\ ~argv.home) =>
              /\ TraceOps \subseteq {"init", "getStatus", "absoluteMove", "wait"}
              /\ trace[2].op = "getStatus"
        /\ (~AnyPosition /\ ~AnyDirection /\ ~argv.stop /\ ~argv.home) =>
              trace = <<InitCall, StatusRequest>>

\* Every flag is given at once and the command has stopped the camera.
C1_Witness ==
    /\ pc = "exit" /\ exitCode = 0
    /\ argv.stop /\ argv.home /\ argv.left /\ argv.zoomOut /\ argv.pan # Undefined
    /\ trace = <<InitCall, StopRequest>>

\* C2: a continuous move with a duration sends exactly one continuousMove,
\* then waits the duration, then sends exactly one stop for PanTilt and
\* Zoom, in that order and with nothing between them; nothing is sent while
\* it waits; it never exits 0 without having sent the stop, and it exits 0
\* when the camera accepted the move and the stop.
C2_MoveWaitStop ==
    (SessionOpen /\ AnyDirection /\ ~argv.stop /\ ~argv.home /\ argv.duration # Undefined) =>
        /\ \/ /\ Len(trace) = 2
              /\ pc \in {"continuous", "sleep", "exit"}
           \/ /\ Len(trace) = 4
              /\ trace[3] = [op |-> "wait", ms |-> parseFloat(argv.duration).v * 100]
              /\ trace[4] = [op |-> "stop", PanTilt |-> TRUE, Zoom |-> TRUE]
              /\ pc \in {"autoStop", "exit"}
        /\ trace[1].op = "init" /\ trace[2].op = "continuousMove"
        /\ (pc = "exit" /\ exitCode = 0) => Len(trace) = 4
        /\ (pc = "exit" /\ Len(trace) = 4 /\ ~device.moving) => exitCode = 0
        /\ (pc = "exit" /\ Len(trace) = 2) => exitCode = 1

\* left, speed 0.3, duration 2: the move at x = -0.3, two seconds, the stop, exit 0.
C2_Witness ==
    /\ pc = "exit" /\ exitCode = 0
    /\ argv.left /\ ~argv.right
    /\ argv.speed = <<"0", ".", "3">> /\ argv.duration = <<"2">>
    /\ Len(trace) = 4
    /\ trace[2].op = "continuousMove" /\ trace[2].Velocity.x = -3
    /\ trace[3] = [op |-> "wait", ms |-> 2000]
    /\ trace[4].op = "stop"

\* One component of a velocity against its two flags and the speed s.
AxisOk(c, neg, pos, s) ==
    /\ (neg /\ ~pos) => c = -s
    /\ (pos /\ ~neg) => c = s
    /\ (~neg /\ ~pos) => c = 0
    /\ (neg /\ pos) => c \in {-s, s}

\* The speed the command line asks for, in tenths.
AskedSpeed == IF argv.speed = Undefined THEN 5 ELSE parseFloat(argv.speed).v

\* C3: the velocity of every continuousMove has x = -speed for left and
\* +speed for right, y = +speed for up and -speed for down, z = +speed for
\* zoom-in and -speed for zoom-out, 0 in a dimension without a flag, and with
\* both flags of a dimension one of -speed and +speed, never their sum.
C3_VelocityPerDimension ==
    \A i \in 1..Len(trace) :
        trace[i].op = "continuousMove" =>
            /\ AxisOk(trace[i].Velocity.x, argv.left, argv.right, AskedSpeed)
            /\ AxisOk(trace[i].Velocity.y, argv.down, argv.up, AskedSpeed)
            /\ AxisOk(trace[i].Velocity.z, argv.zoomOut, argv.zoomIn, AskedSpeed)

\* Both pan flags, up alone, no zoom flag, speed 0.3.
C3_Witness ==
    /\ Len(trace) >= 2 /\ trace[2].op = "continuousMove"
    /\ argv.left /\ argv.right /\ argv.up /\ ~argv.down
    /\ ~argv.zoomIn /\ ~argv.zoomOut
    /\ argv.speed = <<"0", ".", "3">>
    /\ trace[2].Velocity = [x |-> -3, y |-> 3, z |-> 0]

\* C4: when the camera refuses the home request, the command sends exactly
\* one absoluteMove to {0,0,0} at the configured speed and does not fail for
\* the refusal: it exits non-zero only if that absoluteMove itself fails, and
\* exits 0 when the camera accepts it.
C4_HomeFallback ==
    (SessionOpen /\ argv.home /\ ~argv.stop) =>
        /\ \/ trace = <<InitCall, HomeRequest>>
           \/ trace = <<InitCall, HomeRequest,
                        [op |-> "absoluteMove",
                         Position |-> [x |-> 0, y |-> 0, z |-> 0],
                         Speed |-> [x |-> AskedSpeed, y |-> AskedSpeed, z |-> AskedSpeed]]>>
        /\ (pc = "home") <=> (Len(trace) = 2 /\ exitCode = -1)
        /\ (pc = "center") <=> (Len(trace) = 3 /\ exitCode = -1)
        /\ (pc = "exit" /\ Len(trace) = 2) => exitCode = 0
        /\ (pc = "exit" /\ Len(trace) = 3 /\ device.pos = [x |-> 0, y |-> 0, z |-> 0])
              => exitCode = 0

\* The home request was refused, the fallback at speed 0.3 accepted, exit 0.
C4_Witness ==
    /\ pc = "exit" /\ exitCode = 0
    /\ argv.home /\ argv.speed = <<"0", ".", "3">>
    /\ Len(trace) = 3
    /\ trace[2].op = "gotoHomePosition"
    /\ trace[3].op = "absoluteMove"
    /\ trace[3].Position = [x |-> 0, y |-> 0, z |-> 0]
    /\ trace[3].Speed = [x |-> 3, y |-> 3, z |-> 3]

\* The absoluteMove of an absolute move has just been sent (the camera has
\* not moved yet).
MoveSent == pc = "move"

Sent == trace[Len(trace)].Position

\* C5, as stated: every axis the caller did not supply is sent at the
\* camera's current position, whatever the status query answered.
C5_AsStated ==
    MoveSent =>
        /\ argv.pan = Undefined => Sent.x = device.pos.x
        /\ argv.tilt = Undefined => Sent.y = device.pos.y
        /\ argv.zoom = Undefined => Sent.z = device.pos.z

\* C5, amended: every axis the caller did not supply is sent at the camera's
\* current position when the status query answered a position, and at 0 when
\* the query failed or answered no position.
C5_DefaultsFromStatus ==
    MoveSent =>
        LET cur(a) == IF currentStatus = "position" THEN a ELSE 0
        IN  /\ argv.pan = Undefined => Sent.x = cur(device.pos.x)
            /\ argv.tilt = Undefined => Sent.y = cur(device.pos.y)
            /\ argv.zoom = Undefined => Sent.z = cur(device.pos.z)

\* Pan only, the status answered: tilt and zoom are sent where the camera is.
C5_Witness ==
    /\ MoveSent
    /\ argv.pan = <<"0", ".", "5">> /\ argv.tilt = Undefined /\ argv.zoom = Undefined
    /\ currentStatus = "position"
    /\ device.pos = [x |-> -10, y |-> 10, z |-> 0]
    /\ Sent = [x |-> 5, y |-> 10, z |-> 0]

InUnit(c) == -10 <= c /\ c <= 10

\* C6, as stated: every position and velocity sent has pan and tilt in
\* [-1,1] and zoom in [0,1].
C6_AsStated ==
    \A i \in 1..Len(trace) :
        /\ trace[i].op = "absoluteMove" =>
              /\ InUnit(trace[i].Position.x) /\ InUnit(trace[i].Position.y)
              /\ 0 <= trace[i].Position.z /\ trace[i].Position.z <= 10
        /\ trace[i].op = "continuousMove" =>
              /\ InUnit(trace[i].Velocity.x) /\ InUnit(trace[i].Velocity.y)
              /\ 0 <= trace[i].Velocity.z /\ trace[i].Velocity.z <= 10

\* C6, amended: every position sent (absolute move, home fallback) has pan
\* and tilt in [-1,1] and zoom in [0,1]; every velocity sent has its three
\* components in [-1,1], the zoom component being negative for zoom-out.
C6_VectorsInRange ==
    \A i \in 1..Len(trace) :
        /\ trace[i].op = "absoluteMove" =>
              /\ InUnit(trace[i].Position.x) /\ InUnit(trace[i].Position.y)
              /\ 0 <= trace[i].Position.z /\ trace[i].Position.z <= 10
        /\ trace[i].op = "continuousMove" =>
              /\ InUnit(trace[i].Velocity.x) /\ InUnit(trace[i].Velocity.y)
              /\ InUnit(trace[i].Velocity.z)

\* A zoom-out beside a pan to the right at speed 0.3 has been sent.
C6_Witness ==
    /\ Len(trace) >= 2 /\ trace[2].op = "continuousMove"
    /\ argv.zoomOut /\ ~argv.zoomIn /\ argv.right /\ ~argv.left
    /\ trace[2].Velocity = [x |-> 3, y |-> 0, z |-> -3]

OutOfRange(n, lo, hi) == n.nan \/ n.v < lo \/ n.v > hi

\* The target of the absolute move, given what the status query answered,
\* fails the range validation.
TargetRejected ==
    /\ AnyPosition /\ ~AnyDirection /\ ~argv.stop /\ ~argv.home
    /\ currentStatus # "none"
    /\ \/ OutOfRange(pan(currentStatus), -10, 10)
       \/ OutOfRange(tilt(currentStatus), -10, 10)
       \/ OutOfRange(zoom(currentStatus), 0, 10)

C8_StopUnconditional ==
    (argv.stop /\ SessionOpen) =>
        /\ Len(trace) = 2
        /\ trace[2] = [op |-> "stop", PanTilt |-> TRUE, Zoom |-> TRUE]

\* stop beside home, directions, a pan value, a speed and a duration.
C8_Witness ==
    /\ argv.stop /\ SessionOpen
    /\ argv.home /\ argv.right /\ argv.down /\ argv.zoomIn
    /\ argv.pan # Undefined /\ argv.speed # Undefined /\ argv.duration # Undefined
    /\ Count("stop") = 1

-----------------------------------------------------------------------------
(* Properties of the snapshot command (SpecSnapshot) *)

\* C9: for both strategies, when a capture fails (session, HTTP status,
\* empty body, write, transcoder error, timeout, file not created), no file
\* is at the destination when the command exits.
C9_NoFileAfterFailure ==
    (pc = "exit" /\ exitCode # 0 /\ trace # <<>>) => ~fs.exists

\* The transcoder had written to the destination when the timer killed it.
C9_Witness ==
    /\ pc = "exit" /\ exitCode = 1
    /\ proc.state = "killed" /\ proc.written > 0
    /\ ~fs.exists

\* C10: in the transcode strategy exactly one of the two sides of the race
\* is taken.  When the process's end comes first, the process is never
\* killed, the timer never acts, and the command exits 0 (the destination
\* being there; non-zero if the process left no file).  When the timer comes
\* first, the process is sent SIGKILL and the command exits non-zero.  The
\* process is killed in no other case.
C10_RaceOneOutcome ==
    /\ ~("end" \in TraceOps /\ "timeout" \in TraceOps)
    /\ "end" \in TraceOps =>
          /\ "kill" \notin TraceOps
          /\ proc.state = "ended"
          /\ pc = "exit"
          /\ exitCode = 0 <=> fs.exists
    /\ "timeout" \in TraceOps =>
          /\ trace[Len(trace)] = [op |-> "kill", signal |-> "SIGKILL"]
          /\ proc.state # "running"
          /\ pc = "exit" /\ exitCode = 1
    /\ "kill" \in TraceOps => trace[Len(trace) - 1].op = "timeout"
    /\ Count("end") + Count("timeout") + Count("error") <= 1

\* The process ended first, with the image written: exit 0, nothing killed.
C10_Witness ==
    /\ pc = "exit" /\ exitCode = 0
    /\ "end" \in TraceOps
    /\ proc.state = "ended" /\ proc.written = MaxChunks
    /\ fs = [exists |-> TRUE, origin |-> "new", size |-> MaxChunks]

\* The direct fetch ended in one of the failures of fetchUrl or with an
\* empty body.
FetchFailed ==
    \/ res.state \in {"rejected", "failed", "destroyed"}
    \/ res.state = "ended" /\ res.chunks = 0

\* C11: in the direct-fetch strategy the destination is written at most
\* once, only after a response with a status in 200..299 whose body has
\* ended, and with the whole, non-empty body (every chunk received); after a
\* status outside 200..299, an empty body, a transport error or the request
\* timeout the command fails and the destination has never been written.
C11_WriteAfterWholeBody ==
    /\ Count("writeFile") <= 1
    /\ \A i \in 1..Len(trace) :
          trace[i].op = "writeFile" =>
             /\ i > 1 /\ trace[i - 1].op = "resEnd"
             /\ \E j \in 1..i :
                   /\ trace[j].op = "response"
                   /\ trace[j].statusCode >= 200 /\ trace[j].statusCode < 300
             /\ trace[i].size = Count("resData")
             /\ trace[i].size > 0
    /\ FetchFailed =>
          /\ Count("writeFile") = 0
          /\ fs.origin # "new"
          /\ pc = "exit" /\ exitCode = 1

\* A 299 answer whose body came in MaxChunks chunks was written whole.
C11_Witness ==
    /\ pc = "exit" /\ exitCode = 0
    /\ res = [state |-> "ended", statusCode |-> 299, chunks |-> MaxChunks]
    /\ trace[Len(trace)] = [op |-> "writeFile", size |-> MaxChunks]
    /\ fs = [exists |-> TRUE, origin |-> "new", size |-> MaxChunks]

-----------------------------------------------------------------------------
(* lib/common.js: the shared functions, as a script or the offline tests
   call them *)

\* JavaScript values as the functions below see them: undefined, null, a
\* string with its text, a number with the text String() gives it.
NoFields ==
    [port |-> UndefinedV, ip |-> UndefinedV,
     username |-> UndefinedV, password |-> UndefinedV]

NoEnv ==
    [ONVIF_PORT |-> UndefinedV, IP_ADDRESS |-> UndefinedV,
     USERNAME |-> UndefinedV, PASSWORD |-> UndefinedV]

\* Lines 18-41: the dotfile's KEY=VALUE pairs; none when there is no dotfile
\* or it cannot be read.
loadDotenv(dotfile) ==
    IF dotfile.kind = "entries" THEN dotfile.entries ELSE NoEnv

\* Lines 49-56: the persisted config file, parsed; the empty object when the
\* file is missing, cannot be read or is not JSON.  What JSON.parse returns
\* is kept whatever it is: an object, a number, null.
readConfigFile(file) ==
    IF file.kind \in {"missing", "unreadable", "malformed"}
    THEN [kind |-> "object", fields |-> NoFields]
    ELSE file

\* fileConfig.<key>: undefined on a value without that property.
Get(fileConfig, key) ==
    IF fileConfig.kind = "object" THEN fileConfig.fields[key] ELSE UndefinedV

\* The port chain with the environment ahead of the command line.
rawPort_EnvFirst(a, env, dotenv, fileConfig, defaults) ==
    IF ~Nullish(env.ONVIF_PORT) THEN env.ONVIF_PORT
    ELSE IF ~Nullish(a.port) THEN a.port
    ELSE IF ~Nullish(dotenv.ONVIF_PORT) THEN dotenv.ONVIF_PORT
    ELSE IF fileConfig.kind = "null" THEN TypeErrorV
    ELSE IF ~Nullish(Get(fileConfig, "port")) THEN Get(fileConfig, "port")
    ELSE IF ~Nullish(defaults.port) THEN defaults.port
    ELSE Number(<<"2", "0", "2", "0">>)

\* Line 58: argv.port ?? process.env.ONVIF_PORT ?? dotenv.ONVIF_PORT ??
\* fileConfig.port ?? defaults.port ?? 2020, evaluated left to right; reading
\* fileConfig.port when fileConfig is null throws.
rawPort(a, env, dotenv, fileConfig, defaults) ==
    IF ~Nullish(a.port) THEN a.port
    ELSE IF ~Nullish(env.ONVIF_PORT) THEN env.ONVIF_PORT
    ELSE IF ~Nullish(dotenv.ONVIF_PORT) THEN dotenv.ONVIF_PORT
    ELSE IF fileConfig.kind = "null" THEN TypeErrorV
    ELSE IF ~Nullish(Get(fileConfig, "port")) THEN Get(fileConfig, "port")
    ELSE IF ~Nullish(defaults.port) THEN defaults.port
    ELSE Number(<<"2", "0", "2", "0">>)

\* Line 61: the value the error message names:
\* argv.port || process.env.ONVIF_PORT || fileConfig.port || defaults.port.
namedPort(a, env, fileConfig, defaults) ==
    IF ~Falsy(a.port) THEN a.port
    ELSE IF ~Falsy(env.ONVIF_PORT) THEN env.ONVIF_PORT
    ELSE IF fileConfig.kind = "null" THEN TypeErrorV
    ELSE IF ~Falsy(Get(fileConfig, "port")) THEN Get(fileConfig, "port")
    ELSE defaults.port

\* Lines 65-67: a || env || dotenv || fileConfig.<key> || defaults.<key>.
orChain(a, e, d, fileConfig, key, dflt) ==
    IF ~Falsy(a) THEN a
    ELSE IF ~Falsy(e) THEN e
    ELSE IF ~Falsy(d) THEN d
    ELSE IF fileConfig.kind = "null" THEN TypeErrorV
    ELSE IF ~Falsy(Get(fileConfig, key)) THEN Get(fileConfig, key)
    ELSE dflt

Threw(what, value) ==
    [done |-> TRUE, threw |-> what, named |-> value, value |-> NoFields, port |-> 0]

Returned(profile, port) ==
    [done |-> TRUE, threw |-> "none", named |-> UndefinedV, value |-> profile, port |-> port]

\* Lines 46-70: loadConfig(argv, defaults), in the environment c.env, with
\* the dotfile c.dotfile and the config file c.file.
loadConfig(c) ==
    LET dotenv     == loadDotenv(c.dotfile)
        fileConfig == readConfigFile(c.file)
        raw        == rawPort(c.argv, c.env, dotenv, fileConfig, c.defaults)
        port       == parseInt(raw.s)
        named      == namedPort(c.argv, c.env, fileConfig, c.defaults)
        ip         == orChain(c.argv.ip, c.env.IP_ADDRESS, dotenv.IP_ADDRESS,
                              fileConfig, "ip", c.defaults.ip)
        username   == orChain(c.argv.username, c.env.USERNAME, dotenv.USERNAME,
                              fileConfig, "username", c.defaults.username)
        password   == orChain(c.argv.password, c.env.PASSWORD, dotenv.PASSWORD,
                              fileConfig, "password", c.defaults.password)
    IN  IF raw = TypeErrorV THEN Threw("TypeError", UndefinedV)
        ELSE IF port.nan \/ port.v < 1 \/ port.v > 65535
        THEN IF named = TypeErrorV THEN Threw("TypeError", UndefinedV)
             ELSE Threw("Invalid port number", named)
        ELSE IF TypeErrorV \in {ip, username, password}
        THEN Threw("TypeError", UndefinedV)
        ELSE Returned([port |-> Number(IntText(port.v)), ip |-> ip,
                       username |-> username, password |-> password], port.v)

\* Lines 14-27 of ptz.js (and the same option blocks of preset.js,
\* snapshot.js and status.js): minimist fills argv.port with its default
\* 2020 when the command line has no --port.
minimist(flags) ==
    [flags EXCEPT !.port = IF @ = UndefinedV THEN Number(<<"2", "0", "2", "0">>) ELSE @]

\* Lines 14-27, 77 of ptz.js and line 76 of lib/common.js: a command parses
\* its command line, loads its configuration without caller defaults, and
\* opens the session on config.port.
commandConfig(c) ==
    loadConfig([c EXCEPT !.argv = minimist(c.argv), !.defaults = NoFields])

Range(f) == {f[i] : i \in DOMAIN f}

\* arg.replace(/^--/, ''): the token without one leading "--".
StripDashes(arg) ==
    IF Len(arg) >= 2 /\ arg[1] = "-" /\ arg[2] = "-"
    THEN SubSeq(arg, 3, Len(arg)) ELSE arg

\* The value test with the leading '-' optional: /^-?[\d.]/.
IsNegativeNumber_OptionalSign(next) ==
    \/ Len(next) >= 1 /\ next[1] \in DigitChars \cup {"."}
    \/ Len(next) >= 2 /\ next[1] = "-" /\ next[2] \in DigitChars \cup {"."}

\* Line 142: /^-[\d.]/.test(next): a '-' and then a digit or a '.'.
IsNegativeNumber(next) ==
    Len(next) >= 2 /\ next[1] = "-" /\ next[2] \in DigitChars \cup {"."}

\* Lines 138-148: the loop of preprocessArgs from index i on.
RECURSIVE preprocessFrom(_, _, _)
preprocessFrom(args, numericKeys, i) ==
    IF i > Len(args) THEN <<>>
    ELSE LET arg == args[i]
             key == StripDashes(arg)
         IN  IF /\ key \in numericKeys
                /\ i + 1 <= Len(args) /\ args[i + 1] # <<>>
                /\ IsNegativeNumber(args[i + 1])
             THEN <<arg \o <<"=">> \o args[i + 1]>>
                  \o preprocessFrom(args, numericKeys, i + 2)
             ELSE <<arg>> \o preprocessFrom(args, numericKeys, i + 1)

\* Lines 136-150.
preprocessArgs(args, numericKeys) == preprocessFrom(args, numericKeys, 1)

\* ip.split('.'): the groups between the dots, from position i on, cur being
\* the group collected so far.
RECURSIVE SplitDots(_, _, _)
SplitDots(s, i, cur) ==
    IF i > Len(s) THEN <<cur>>
    ELSE IF s[i] = "." THEN <<cur>> \o SplitDots(s, i + 1, <<>>)
    ELSE SplitDots(s, i + 1, Append(cur, s[i]))

\* The group test without the comparison of String(num) with the group.
partOk_NoCanonicalTest(part) ==
    LET num == parseInt(part)
    IN  ~(num.nan \/ num.v < 0 \/ num.v > 255)

\* Lines 115-116: the test of one group.
partOk(part) ==
    LET num == parseInt(part)
    IN  ~(num.nan \/ num.v < 0 \/ num.v > 255 \/ IntText(num.v) # part)

\* Lines 110-121: null, or the error.
validateIp(ip) ==
    IF Falsy(ip) THEN "IP address is required"
    ELSE LET parts == SplitDots(ip.s, 1, <<>>)
         IN  IF Len(parts) # 4 THEN "Invalid IP address"
             ELSE IF \E k \in 1..4 : ~partOk(parts[k]) THEN "Invalid IP address"
             ELSE Null

\* msg.includes(word), on a message made of words.
includes(msg, word) == \E i \in 1..Len(msg) : msg[i] = word

\* formatError with the authentication rule ahead of the connection rule.
formatError_AuthFirst(err) ==
    LET msg == IF err.message # <<>> THEN err.message ELSE err.string IN
    IF includes(msg, "Unauthorized") \/ includes(msg, "401")
    THEN <<"Authentication failed:">> \o msg \o <<"Check your username and password">>
    ELSE IF includes(msg, "ECONNREFUSED") \/ includes(msg, "EHOSTUNREACH")
            \/ includes(msg, "ETIMEDOUT")
    THEN <<"Connection failed:">> \o msg \o <<"Make sure the camera is online and ONVIF is enabled">>
    ELSE IF includes(msg, "ffmpeg") \/ includes(msg, "ENOENT")
    THEN <<"FFmpeg error:">> \o msg \o <<"Make sure ffmpeg is installed: brew install ffmpeg">>
    ELSE IF includes(msg, "timeout") \/ includes(msg, "Timeout")
    THEN <<"Operation timed out:">> \o msg \o <<"The camera may be slow to respond. Try increasing --timeout">>
    ELSE msg

\* Lines 89-105: msg is error.message || String(error); the text returned is
\* the category, the message and the hint of the first rule that matches, or
\* the message alone.
formatError(err) ==
    LET msg == IF err.message # <<>> THEN err.message ELSE err.string IN
    IF includes(msg, "ECONNREFUSED") \/ includes(msg, "EHOSTUNREACH")
       \/ includes(msg, "ETIMEDOUT")
    THEN <<"Connection failed:">> \o msg \o <<"Make sure the camera is online and ONVIF is enabled">>
    ELSE IF includes(msg, "Unauthorized") \/ includes(msg, "401")
    THEN <<"Authentication failed:">> \o msg \o <<"Check your username and password">>
    ELSE IF includes(msg, "ffmpeg") \/ includes(msg, "ENOENT")
    THEN <<"FFmpeg error:">> \o msg \o <<"Make sure ffmpeg is installed: brew install ffmpeg">>
    ELSE IF includes(msg, "timeout") \/ includes(msg, "Timeout")
    THEN <<"Operation timed out:">> \o msg \o <<"The camera may be slow to respond. Try increasing --timeout">>
    ELSE msg

-----------------------------------------------------------------------------
(* The calls of the shared functions *)

\* The longest command line given to preprocessArgs.
MaxArgs == 4

\* The longest message given to formatError, in words.
MaxWords == 2

ArgvPorts ==
    {UndefinedV, Number(<<"8", "0", "8", "0">>), Number(<<"0">>), Number(<<"7", "0", "0", "0", "0">>), Str(<<"a", "b", "c">>), Str(<<"8", "0", "a", "b", "c">>)}

\* The command line's address and credentials: none of them, or all three.
ArgvIdentities ==
    {NoFields,
     [port |-> UndefinedV, ip |-> Str(<<"1", ".", "2", ".", "3", ".", "4">>), username |-> Str(<<"u">>),
      password |-> Str(<<"p">>)]}

EnvSet ==
    {[NoEnv EXCEPT !.ONVIF_PORT = v] : v \in {UndefinedV, Str(<<"9", "0", "9", "0">>), Str(<<>>)}}

DotfileSet ==
    {[kind |-> "missing", entries |-> NoEnv],
     [kind |-> "unreadable", entries |-> NoEnv],
     [kind |-> "entries", entries |-> [NoEnv EXCEPT !.ONVIF_PORT = Str(<<"7", "0", "7", "0">>)]]}

\* The persisted config file: absent, unreadable, not JSON, or JSON: null,
\* a number, an object without fields, with a port, with a null port and an
\* address.
ConfigFileSet ==
    {[kind |-> k, fields |-> NoFields] :
        k \in {"missing", "unreadable", "malformed", "null", "number", "object"}}
    \cup {[kind |-> "object", fields |-> [NoFields EXCEPT !.port = Number(<<"6", "0", "6", "0">>)]],
          [kind |-> "object",
           fields |-> [NoFields EXCEPT !.port = NullV, !.ip = Str(<<"1", ".", "2", ".", "3", ".", "4">>)]]}

DefaultsSet == {NoFields, [NoFields EXCEPT !.port = Number(<<"5", "0", "5", "0">>)]}

LoadConfigInputs ==
    {[argv |-> [a EXCEPT !.port = cp], env |-> e, dotfile |-> d, file |-> f,
      defaults |-> df] :
        a \in ArgvIdentities, cp \in ArgvPorts, e \in EnvSet, d \in DotfileSet,
        f \in ConfigFileSet, df \in DefaultsSet}

LoadConfigCalls ==
    {[fn |-> "loadConfig", in |-> c] : c \in LoadConfigInputs}

CommandCalls ==
    {[fn |-> "command", in |-> c] : c \in {x \in LoadConfigInputs : x.defaults = NoFields}}

\* The groups an address is written with.
IpGroups == {<<"0">>, <<"2", "5", "5">>, <<"2", "5", "6">>, <<"0", "1">>, <<>>, <<"1", "a">>, <<"-", "0">>, <<"+", "1">>, <<" ", "1">>}

\* groups joined by dots.
RECURSIVE JoinDots(_)
JoinDots(groups) ==
    IF Len(groups) = 0 THEN <<>>
    ELSE IF Len(groups) = 1 THEN groups[1]
    ELSE groups[1] \o <<".">> \o JoinDots(Tail(groups))

IpGroupLists ==
    [1..4 -> IpGroups] \cup [1..3 -> {<<"0">>, <<"2", "5", "5">>}] \cup [1..5 -> {<<"0">>, <<"2", "5", "5">>}]
    \cup [1..1 -> {<<"0">>}]

ValidateIpCalls ==
    {[fn |-> "validateIp", ip |-> Str(JoinDots(g)), groups |-> g] : g \in IpGroupLists}
    \cup {[fn |-> "validateIp", ip |-> v, groups |-> <<>>] :
            v \in {NullV, UndefinedV, Str(<<>>)}}

ValidateRangeCalls ==
    {[fn |-> "validateRange", value |-> v, min |-> lo, max |-> hi] :
        v \in {NaN} \cup {Num(n) : n \in -12..12},
        lo \in {-10, 0, 1}, hi \in {1, 10}}

ArgTokens == {<<"-", "-", "p", "a", "n">>, <<"-", "-", "t", "i", "l", "t">>, <<"-", "-", "s", "p", "e", "e", "d">>, <<"p", "a", "n">>, <<"-", "0", ".", "8">>, <<"0", ".", "3">>, <<"-", "x">>, <<"-", ".", "5">>}

NumericKeySets == {{<<"p", "a", "n">>, <<"t", "i", "l", "t">>}, {<<"p", "a", "n">>}}

ArgLists == UNION {[1..n -> ArgTokens] : n \in 0..MaxArgs}

PreprocessArgsCalls ==
    {[fn |-> "preprocessArgs", args |-> a, numericKeys |-> k] :
        a \in ArgLists, k \in NumericKeySets}

Words ==
    {"ECONNREFUSED", "EHOSTUNREACH", "ETIMEDOUT", "Unauthorized", "401",
     "ffmpeg", "ENOENT", "timeout", "Timeout", "TIMEOUT", "something"}

Messages == UNION {[1..n -> Words] : n \in 0..MaxWords}

\* new Error(m): String() of an Error is "Error" when the message is empty.
FormatErrorCalls ==
    {[fn |-> "formatError",
      error |-> [message |-> m,
                 string |-> IF m = <<>> THEN <<"Error">> ELSE <<"Error:">> \o m]] :
        m \in Messages}

\* The most presets a getPresets response carries.
MaxPresets == 3

\* One element of the Preset field: a record { $: { token }, Name }, with or
\* without its attribute holder $ and its Name; null; or a value that is not
\* a record (a string).
PresetRecord(hasAttrs, token, name) ==
    [kind |-> "record", hasAttrs |-> hasAttrs, token |-> token, Name |-> name]

NullElement == [kind |-> "null", hasAttrs |-> FALSE, token |-> UndefinedV, Name |-> UndefinedV]

StringElement == [kind |-> "string", hasAttrs |-> FALSE, token |-> UndefinedV, Name |-> UndefinedV]

\* Line 380: result?.data?.GetPresetsResponse?.Preset: undefined unless every
\* step of the path is there.
NoPreset == [kind |-> "undefined", items |-> <<>>, value |-> NullElement]

rawPreset(r) == IF r.kind = "preset" THEN r.Preset ELSE NoPreset

\* extractPresets taking a Preset field that is not an array for no preset.
toArray_ArraysOnly(raw) == IF raw.kind = "array" THEN raw.items ELSE <<>>

\* Line 382: Array.isArray(raw) ? raw : [raw].
toArray(raw) == IF raw.kind = "array" THEN raw.items ELSE <<raw.value>>

\* Lines 383-386: one element mapped to { token, name }.
presetOf(p) ==
    [token |-> IF p.kind = "record" /\ p.hasAttrs /\ ~Falsy(p.token) THEN p.token.s ELSE <<>>,
     name  |-> IF p.kind = "record" /\ ~Falsy(p.Name) THEN p.Name.s ELSE <<>>]

\* Lines 379-387: the list, or the TypeError of reading p.$ on a null
\* element.
extractPresets(r) ==
    LET raw == rawPreset(r)
    IN  IF raw.kind \in {"undefined", "null", "emptyString"}
        THEN [done |-> TRUE, threw |-> "none", value |-> <<>>]
        ELSE LET arr == toArray(raw)
             IN  IF \E i \in 1..Len(arr) : arr[i].kind = "null"
                 THEN [done |-> TRUE, threw |-> "TypeError", value |-> <<>>]
                 ELSE [done |-> TRUE, threw |-> "none",
                       value |-> [i \in 1..Len(arr) |-> presetOf(arr[i])]]

LowerChar(c) ==
    CASE c = "A" -> "a" [] c = "B" -> "b" [] c = "C" -> "c" [] c = "D" -> "d"
      [] c = "E" -> "e" [] c = "F" -> "f" [] c = "G" -> "g" [] c = "H" -> "h"
      [] c = "I" -> "i" [] c = "J" -> "j" [] c = "K" -> "k" [] c = "L" -> "l"
      [] c = "M" -> "m" [] c = "N" -> "n" [] c = "O" -> "o" [] c = "P" -> "p"
      [] c = "Q" -> "q" [] c = "R" -> "r" [] c = "S" -> "s" [] c = "T" -> "t"
      [] c = "U" -> "u" [] c = "V" -> "v" [] c = "W" -> "w" [] c = "X" -> "x"
      [] c = "Y" -> "y" [] c = "Z" -> "z" [] OTHER -> c

\* s.toLowerCase().
toLowerCase(s) == [i \in 1..Len(s) |-> LowerChar(s[i])]

\* The test of line 394 comparing the names as they are written.
presetMatches_CaseSensitive(p, valStr) ==
    \/ p.token = valStr
    \/ p.name # <<>> /\ p.name = valStr

\* Line 394: the test of one preset.
presetMatches(p, valStr) ==
    \/ p.token = valStr
    \/ p.name # <<>> /\ toLowerCase(p.name) = toLowerCase(valStr)

NotFound == [found |-> FALSE, preset |-> [token |-> <<>>, name |-> <<>>]]

\* Lines 392-395: presets.find(...): the first preset that passes the test,
\* or undefined.  val is a string or a number; String(val) is its text.
findPreset(presets, val) ==
    LET valStr == val.s
        hits   == {i \in 1..Len(presets) : presetMatches(presets[i], valStr)}
    IN  IF hits = {} THEN NotFound
        ELSE [found |-> TRUE,
              preset |-> presets[CHOOSE i \in hits : \A j \in hits : i <= j]]

PresetElements ==
    {PresetRecord(TRUE, Str(<<"1">>), Str(<<"H", "o", "m", "e">>)),
     PresetRecord(TRUE, Str(<<"2">>), Str(<<"d", "o", "o", "r">>)),
     PresetRecord(TRUE, Str(<<"5">>), UndefinedV),
     PresetRecord(FALSE, UndefinedV, Str(<<"Y", "a", "r", "d">>)),
     NullElement,
     StringElement}

\* What getPresets answers: null, an object without data, with null data,
\* without GetPresetsResponse, without the Preset field, or with a Preset
\* field: null, the empty string, one element, or an array of elements.
PresetResponses ==
    {[kind |-> k, Preset |-> NoPreset] :
        k \in {"null", "noData", "nullData", "noResponse", "noPreset"}}
    \cup {[kind |-> "preset", Preset |-> [NoPreset EXCEPT !.kind = k]] :
            k \in {"null", "emptyString"}}
    \cup {[kind |-> "preset", Preset |-> [kind |-> e.kind, items |-> <<>>, value |-> e]] :
            e \in PresetElements \ {NullElement}}
    \cup {[kind |-> "preset",
           Preset |-> [kind |-> "array", items |-> a, value |-> NullElement]] :
            a \in UNION {[1..n -> PresetElements] : n \in 0..MaxPresets}}

ExtractPresetsCalls == {[fn |-> "extractPresets", result |-> r] : r \in PresetResponses}

PresetLists ==
    UNION {[1..n -> {[token |-> <<"1">>, name |-> <<"H", "o", "m", "e">>],
                     [token |-> <<"2">>, name |-> <<"h", "o", "m", "e">>],
                     [token |-> <<"h", "o", "m", "e">>, name |-> <<>>],
                     [token |-> <<>>, name |-> <<"D", "o", "o", "r">>]}] : n \in 0..MaxPresets}

Identifiers ==
    {Str(<<"h", "o", "m", "e">>), Str(<<"H", "O", "M", "E">>), Str(<<"H", "o", "m">>), Str(<<"d", "o", "o", "r">>), Str(<<"2">>), Number(<<"1">>),
     Str(<<"9", "9">>), Str(<<>>)}

FindPresetCalls ==
    {[fn |-> "findPreset", presets |-> l, val |-> v] : l \in PresetLists, v \in Identifiers}

Calls ==
    LoadConfigCalls \cup CommandCalls \cup ValidateIpCalls \cup ValidateRangeCalls
    \cup PreprocessArgsCalls \cup FormatErrorCalls
    \cup ExtractPresetsCalls \cup FindPresetCalls

\* test.js lines 73-113: loadConfig is called with an argv and defaults.
call_loadConfig ==
    /\ call.fn = "loadConfig"
    /\ ~result.done
    /\ result' = loadConfig(call.in)
    /\ UNCHANGED <<pc, argv, config, device, trace, exitCode, error, currentStatus, fs, proc, res, call, command, output, failures>>

\* ptz.js lines 14-27, 77: a command parses its command line and loads its
\* configuration.
command_loadConfig ==
    /\ call.fn = "command"
    /\ ~result.done
    /\ result' = commandConfig(call.in)
    /\ UNCHANGED <<pc, argv, config, device, trace, exitCode, error, currentStatus, fs, proc, res, call, command, output, failures>>

\* test.js lines 55-62, ptz.js line 80.
call_validateIp ==
    /\ call.fn = "validateIp"
    /\ ~result.done
    /\ result' = [done |-> TRUE, value |-> validateIp(call.ip)]
    /\ UNCHANGED <<pc, argv, config, device, trace, exitCode, error, currentStatus, fs, proc, res, call, command, output, failures>>

\* test.js lines 64-71, ptz.js lines 87, 92.
call_validateRange ==
    /\ call.fn = "validateRange"
    /\ ~result.done
    /\ result' = [done |-> TRUE, value |-> validateRange(call.value, call.min, call.max)]
    /\ UNCHANGED <<pc, argv, config, device, trace, exitCode, error, currentStatus, fs, proc, res, call, command, output, failures>>

\* test.js lines 122-130, ptz.js line 14.
call_preprocessArgs ==
    /\ call.fn = "preprocessArgs"
    /\ ~result.done
    /\ result' = [done |-> TRUE, value |-> preprocessArgs(call.args, call.numericKeys)]
    /\ UNCHANGED <<pc, argv, config, device, trace, exitCode, error, currentStatus, fs, proc, res, call, command, output, failures>>

\* test.js lines 115-120, ptz.js line 260.
call_formatError ==
    /\ call.fn = "formatError"
    /\ ~result.done
    /\ result' = [done |-> TRUE, value |-> formatError(call.error)]
    /\ UNCHANGED <<pc, argv, config, device, trace, exitCode, error, currentStatus, fs, proc, res, call, command, output, failures>>

\* test.js lines 162-226, preset.js line 421.
call_extractPresets ==
    /\ call.fn = "extractPresets"
    /\ ~result.done
    /\ result' = extractPresets(call.result)
    /\ UNCHANGED <<pc, argv, config, device, trace, exitCode, error, currentStatus, fs, proc, res, call, command, output, failures>>

\* test.js lines 228-237, preset.js line 456.
call_findPreset ==
    /\ call.fn = "findPreset"
    /\ ~result.done
    /\ result' = [done |-> TRUE, value |-> findPreset(call.presets, call.val)]
    /\ UNCHANGED <<pc, argv, config, device, trace, exitCode, error, currentStatus, fs, proc, res, call, command, output, failures>>

InitLib ==
    /\ pc = "lib"
    /\ argv = NoFlags
    /\ config = [port |-> <<"2", "0", "2", "0">>, ipValid |-> TRUE, hasCredentials |-> TRUE]
    /\ device = NoDevice
    /\ trace = <<>>
    /\ exitCode = -1
    /\ error = "none"
    /\ currentStatus = "none"
    /\ fs = NoFile
    /\ proc = NoProc
    /\ res = NoRes
    /\ call \in Calls
    /\ result = NoResult
    /\ command = "lib"
    /\ output = <<>>
    /\ failures = {}

NextLib ==
    \/ call_loadConfig
    \/ command_loadConfig
    \/ call_validateIp
    \/ call_validateRange
    \/ call_preprocessArgs
    \/ call_formatError
    \/ call_extractPresets
    \/ call_findPreset

SpecLib == InitLib /\ [][NextLib]_vars

-----------------------------------------------------------------------------
(* Properties of the shared functions (SpecLib) *)

\* The port each source of a loadConfig call supplies, highest priority
\* first; undefined where the source supplies none.
PortSources(c) ==
    <<c.argv.port,
      c.env.ONVIF_PORT,
      IF c.dotfile.kind = "entries" THEN c.dotfile.entries.ONVIF_PORT ELSE UndefinedV,
      IF c.file.kind = "object" THEN c.file.fields.port ELSE UndefinedV,
      c.defaults.port,
      Number(<<"2", "0", "2", "0">>)>>

\* The value of the highest-priority source that supplies a port.
FirstSupplied(c) ==
    LET q == PortSources(c)
        i == CHOOSE k \in 1..6 : ~Nullish(q[k]) /\ \A j \in 1..(k - 1) : Nullish(q[j])
    IN  q[i]

ValidPort(v) ==
    LET n == parseInt(v.s) IN ~n.nan /\ n.v >= 1 /\ n.v <= 65535

\* C12: the port of the profile loadConfig returns is the one of the
\* highest-priority source that supplies a port, in the order command line,
\* environment ONVIF_PORT, dotfile ONVIF_PORT, config file port, caller's
\* default, 2020; and when loadConfig rejects the port, the rejected value is
\* that source's: a lower source never overrides a higher one.
C12_PortPriority ==
    (call.fn = "loadConfig" /\ result.done) =>
        /\ result.threw = "none" =>
              /\ ValidPort(FirstSupplied(call.in))
              /\ result.port = parseInt(FirstSupplied(call.in).s).v
        /\ result.threw = "Invalid port number" => ~ValidPort(FirstSupplied(call.in))

\* The dotfile's port wins over the config file's and the caller's default.
C12_Witness ==
    /\ call.fn = "loadConfig" /\ result.done
    /\ call.in.argv.port = UndefinedV /\ call.in.env.ONVIF_PORT = UndefinedV
    /\ call.in.dotfile.kind = "entries"
    /\ call.in.file.fields.port = Number(<<"6", "0", "6", "0">>)
    /\ call.in.defaults.port = Number(<<"5", "0", "5", "0">>)
    /\ result.threw = "none" /\ result.port = 7070

\* C13: a command given no --port opens its session on the port of the
\* environment (else of the dotfile, else of the config file) when that
\* port is valid, ahead of the built-in 2020.
C13_AsStated ==
    (/\ call.fn = "command" /\ result.done
     /\ call.in.argv.port = UndefinedV
     /\ FirstSupplied(call.in) # Number(<<"2", "0", "2", "0">>)
     /\ ValidPort(FirstSupplied(call.in))
     /\ result.threw = "none")
        => result.port = parseInt(FirstSupplied(call.in).s).v

\* s is the decimal text of a whole number: digits and nothing else.
IsDecimalText(s) == Len(s) > 0 /\ \A i \in 1..Len(s) : s[i] \in DigitChars

\* s is numeric text for a port in 1..65535.
IsPortText(s) == IsDecimalText(s) /\ parseInt(s).v >= 1 /\ parseInt(s).v <= 65535

\* C14: every profile loadConfig returns has a whole port in 1..65535; a
\* command-line port 8080 gives 8080 whatever the other sources hold; no port
\* in any source gives 2020; and a resolved port that is 0, 70000 or text
\* that is not a number makes loadConfig fail with the port error instead of
\* returning a profile.
C14_AsStated ==
    (call.fn = "loadConfig" /\ result.done /\ result.threw # "TypeError") =>
        /\ result.threw = "none" => result.port \in 1..65535
        /\ call.in.argv.port = Number(<<"8", "0", "8", "0">>) =>
              result.threw = "none" /\ result.port = 8080
        /\ (\A k \in 1..5 : Nullish(PortSources(call.in)[k])) =>
              result.threw = "none" /\ result.port = 2020
        /\ ~IsPortText(FirstSupplied(call.in).s) =>
              result.threw = "Invalid port number"

\* The input of a loadConfig call with the config file taken away.
WithoutFile(c) == [c EXCEPT !.file = [kind |-> "missing", fields |-> NoFields]]

\* C15: whatever the persisted config file is (missing, unreadable, not
\* JSON, or JSON that is not an object with the expected fields, such as
\* null), loadConfig does what it does when the file supplies no fields, and
\* so never fails because of the file.
C15_AsStated ==
    (/\ call.fn = "loadConfig" /\ result.done
     /\ call.in.file.fields = NoFields)
        => result = loadConfig(WithoutFile(call.in))

\* arg is a flag token --name whose name is in the numeric set.
IsNumericFlag(arg, numericKeys) ==
    /\ Len(arg) > 2 /\ arg[1] = "-" /\ arg[2] = "-"
    /\ SubSeq(arg, 3, Len(arg)) \in numericKeys

\* value is a '-' followed by a digit or a '.'.
NegativeValue(value) ==
    Len(value) >= 2 /\ value[1] = "-" /\ value[2] \in DigitChars \cup {"."}

\* value is an optional '-' followed by a digit or a '.'.
SignedValue(value) ==
    \/ NegativeValue(value)
    \/ Len(value) >= 1 /\ value[1] \in DigitChars \cup {"."}

Fused(arg, value) == arg \o <<"=">> \o value

ExampleArgs == <<<<"-", "-", "p", "a", "n">>, <<"-", "0", ".", "8">>, <<"-", "-", "t", "i", "l", "t">>, <<"0", ".", "3">>>>

\* C16 as the specification states it: every pair (--name, value) with name
\* in the numeric set and value an optional '-' then a digit or '.' is
\* replaced by --name=value; the example gives ['--pan=-0.8','--tilt=0.3'].
C16_AsStated ==
    (call.fn = "preprocessArgs" /\ result.done) =>
        /\ \A i \in 1..(Len(call.args) - 1) :
              (/\ IsNumericFlag(call.args[i], call.numericKeys)
               /\ SignedValue(call.args[i + 1]))
                 => Fused(call.args[i], call.args[i + 1]) \in Range(result.value)
        /\ (call.args = ExampleArgs /\ call.numericKeys = {<<"p", "a", "n">>, <<"t", "i", "l", "t">>})
              => result.value = <<<<"-", "-", "p", "a", "n", "=", "-", "0", ".", "8">>, <<"-", "-", "t", "i", "l", "t", "=", "0", ".", "3">>>>

\* C16: every pair (--name, value) with name in the numeric set is replaced
\* by --name=value when value is a '-' followed by a digit or a '.'; when the
\* value is anything else (an unsigned number included) or is missing, the
\* flag token stays as it is; the example gives
\* ['--pan=-0.8', '--tilt', '0.3'].
C16_FusesNegativeValues ==
    (call.fn = "preprocessArgs" /\ result.done) =>
        /\ \A i \in 1..Len(call.args) :
              IsNumericFlag(call.args[i], call.numericKeys) =>
                 IF i < Len(call.args) /\ NegativeValue(call.args[i + 1])
                 THEN Fused(call.args[i], call.args[i + 1]) \in Range(result.value)
                 ELSE /\ call.args[i] \in Range(result.value)
                      /\ i < Len(call.args) =>
                            Fused(call.args[i], call.args[i + 1]) \notin Range(result.value)
        /\ (call.args = ExampleArgs /\ call.numericKeys = {<<"p", "a", "n">>, <<"t", "i", "l", "t">>})
              => result.value = <<<<"-", "-", "p", "a", "n", "=", "-", "0", ".", "8">>, <<"-", "-", "t", "i", "l", "t">>, <<"0", ".", "3">>>>

\* The example of the tests: the negative pan is fused, the unsigned tilt is
\* not.
C16_Witness ==
    /\ call.fn = "preprocessArgs" /\ result.done
    /\ call.args = ExampleArgs /\ call.numericKeys = {<<"p", "a", "n">>, <<"t", "i", "l", "t">>}
    /\ result.value = <<<<"-", "-", "p", "a", "n", "=", "-", "0", ".", "8">>, <<"-", "-", "t", "i", "l", "t">>, <<"0", ".", "3">>>>

\* The position of the first '=' of a token, 0 if it has none.
EqualsAt(tok) ==
    IF \E i \in 1..Len(tok) : tok[i] = "="
    THEN CHOOSE i \in 1..Len(tok) : tok[i] = "=" /\ \A j \in 1..(i - 1) : tok[j] # "="
    ELSE 0

\* The tokens with every fused one put back into its two parts.
RECURSIVE Expand(_)
Expand(toks) ==
    IF toks = <<>> THEN <<>>
    ELSE LET tok == Head(toks)
             e   == EqualsAt(tok)
         IN  (IF e = 0 THEN <<tok>>
              ELSE <<SubSeq(tok, 1, e - 1), SubSeq(tok, e + 1, Len(tok))>>)
             \o Expand(Tail(toks))

\* C17: only a flag token --name with name in the numeric set is fused with
\* the value after it; every other token, a bare token that equals a numeric
\* name included, is emitted unchanged and in order, so that putting every
\* fused token back into its two parts gives the input again.
C17_AsStated ==
    (call.fn = "preprocessArgs" /\ result.done) =>
        /\ \A k \in 1..Len(result.value) :
              EqualsAt(result.value[k]) # 0 =>
                 IsNumericFlag(SubSeq(result.value[k], 1, EqualsAt(result.value[k]) - 1),
                               call.numericKeys)
        /\ Expand(result.value) = call.args

\* g is the canonical decimal text of a whole number in 0..255.
CanonicalOctet(g) == \E n \in 0..255 : g = NatText(n)

\* C18: validateIp accepts (returns null for) exactly the texts made of four
\* dot-separated groups, each the canonical decimal text of a whole number
\* in 0..255; a wrong number of groups, an octet out of range, a group that
\* is not a number, has a leading zero, a sign or a blank, the empty text,
\* null and undefined are rejected.
C18_AcceptsCanonicalQuads ==
    (call.fn = "validateIp" /\ result.done) =>
        (result.value = Null <=>
            /\ call.ip.t = "string"
            /\ Len(call.groups) = 4
            /\ \A k \in 1..4 : CanonicalOctet(call.groups[k]))

\* 0.255.255.0 is accepted.
C18_Witness ==
    /\ call.fn = "validateIp" /\ result.done
    /\ call.groups = <<<<"0">>, <<"2", "5", "5">>, <<"2", "5", "5">>, <<"0">>>>
    /\ result.value = Null

\* 255.01.0.0, with a leading zero, is rejected.
C18_Rejected ==
    /\ call.fn = "validateIp" /\ result.done
    /\ call.groups = <<<<"2", "5", "5">>, <<"0", "1">>, <<"0">>, <<"0">>>>
    /\ result.value = "Invalid IP address"

\* C19: for a number v and min <= max, validateRange(v, min, max) returns no
\* error exactly when v is not NaN and min <= v <= max, both bounds
\* included.
C19_AcceptsClosedRange ==
    (call.fn = "validateRange" /\ result.done) =>
        (result.value = Null <=>
            /\ ~call.value.nan
            /\ call.min <= call.value.v
            /\ call.value.v <= call.max)

\* The value on the upper bound is accepted.
C19_Witness ==
    /\ call.fn = "validateRange" /\ result.done
    /\ call.value = Num(10) /\ call.min = -10 /\ call.max = 10
    /\ result.value = Null

ConnectionWords == {"ECONNREFUSED", "EHOSTUNREACH", "ETIMEDOUT"}

AuthWords == {"Unauthorized", "401"}

TranscoderWords == {"ffmpeg", "ENOENT"}

TimeoutWords == {"timeout", "Timeout"}

Has(msg, words) == Range(msg) \cap words # {}

\* The text formatError classifies: the error's message, or String(error)
\* when the message is empty.
Classified == IF call.error.message # <<>> THEN call.error.message ELSE call.error.string

\* C20: formatError classifies by the first rule that matches, in the order
\* connection (refused, unreachable, transport timeout), authentication
\* (Unauthorized, 401), transcoder missing (ffmpeg, ENOENT), timeout wording;
\* the text returned then starts with that category and carries the message;
\* when no rule matches the message is returned as it is.
C20_FirstRuleWins ==
    (call.fn = "formatError" /\ result.done) =>
        LET msg == Classified
            category ==
                IF Has(msg, ConnectionWords) THEN "Connection failed:"
                ELSE IF Has(msg, AuthWords) THEN "Authentication failed:"
                ELSE IF Has(msg, TranscoderWords) THEN "FFmpeg error:"
                ELSE IF Has(msg, TimeoutWords) THEN "Operation timed out:"
                ELSE "none"
        IN  IF category = "none" THEN result.value = msg
            ELSE /\ Len(result.value) = Len(msg) + 2
                 /\ result.value[1] = category
                 /\ SubSeq(result.value, 2, Len(msg) + 1) = msg

\* A message that matches the timeout, the authentication and the
\* connection rule is a connection failure.
C20_Witness ==
    /\ call.fn = "formatError" /\ result.done
    /\ call.error.message = <<"401", "ETIMEDOUT">>
    /\ result.value[1] = "Connection failed:"

\* The {token, name} record a preset element stands for.
ExpectedPreset(e) ==
    [token |-> IF e.hasAttrs /\ e.token.t = "string" THEN e.token.s ELSE <<>>,
     name  |-> IF e.Name.t = "string" THEN e.Name.s ELSE <<>>]

AllRecords(items) == \A i \in 1..Len(items) : items[i].kind = "record"

\* C21: extractPresets returns a list of {token, name} records: the empty
\* list for a null input or a response without the Preset field, one element
\* for a Preset field that is a single record, n elements in source order for
\* an array of n records; a record without a Name gets the empty name.
C21_NormalizesToList ==
    (call.fn = "extractPresets" /\ result.done) =>
        LET r == call.result
        IN  /\ (r.kind # "preset" \/ r.Preset.kind \in {"null", "emptyString"}) =>
                  result.threw = "none" /\ result.value = <<>>
            /\ (r.kind = "preset" /\ r.Preset.kind = "record") =>
                  result.threw = "none"
                  /\ result.value = <<ExpectedPreset(r.Preset.value)>>
            /\ (r.kind = "preset" /\ r.Preset.kind = "array" /\ AllRecords(r.Preset.items)) =>
                  /\ result.threw = "none"
                  /\ Len(result.value) = Len(r.Preset.items)
                  /\ \A i \in 1..Len(r.Preset.items) :
                        result.value[i] = ExpectedPreset(r.Preset.items[i])

\* An array of three records, the last without a Name, gives three presets
\* in the same order.
C21_Witness ==
    /\ call.fn = "extractPresets" /\ result.done
    /\ call.result.Preset.kind = "array"
    /\ result.value = <<[token |-> <<"2">>, name |-> <<"d", "o", "o", "r">>],
                        [token |-> <<"1">>, name |-> <<"H", "o", "m", "e">>],
                        [token |-> <<"5">>, name |-> <<>>]>>

\* A Preset field that is one record gives a list of one.
C21_Singleton ==
    /\ call.fn = "extractPresets" /\ result.done
    /\ call.result.Preset.kind = "record"
    /\ result.value = <<[token |-> <<"1">>, name |-> <<"H", "o", "m", "e">>]>>

\* C22: extractPresets never raises, whatever the shape of its input: a
\* Preset field that is not a record, an array with a null or non-record
\* element, a record without its attribute holder.
C22_AsStated ==
    (call.fn = "extractPresets" /\ result.done) => result.threw = "none"

\* a and b are the same letter, in either case, or the same character.
SameLetter(a, b) == a = b \/ LowerChar(a) = b \/ a = LowerChar(b)

EqualIgnoringCase(x, y) ==
    Len(x) = Len(y) /\ \A i \in 1..Len(x) : SameLetter(x[i], y[i])

\* Preset p answers to the identifier text id.
Answers(p, id) == p.token = id \/ (p.name # <<>> /\ EqualIgnoringCase(p.name, id))

\* C23: findPreset returns the first preset of the list whose token is the
\* identifier's text or whose non-empty name equals it ignoring case, and
\* the not-found signal when there is none; nothing matches in part, and an
\* empty name never matches.
C23_FirstExactMatch ==
    (call.fn = "findPreset" /\ result.done) =>
        LET id   == call.val.s
            hits == {i \in 1..Len(call.presets) : Answers(call.presets[i], id)}
        IN  /\ result.value.found <=> hits # {}
            /\ \A i \in hits :
                  (\A j \in hits : i <= j) => result.value.preset = call.presets[i]

\* HOME finds the preset named Home, which comes before the one named home.
C23_Witness ==
    /\ call.fn = "findPreset" /\ result.done
    /\ call.val = Str(<<"H", "O", "M", "E">>)
    /\ call.presets = <<[token |-> <<"h", "o", "m", "e">>, name |-> <<>>],
                        [token |-> <<"1">>, name |-> <<"H", "o", "m", "e">>],
                        [token |-> <<"2">>, name |-> <<"h", "o", "m", "e">>]>>
    /\ result.value = [found |-> TRUE, preset |-> [token |-> <<"1">>, name |-> <<"H", "o", "m", "e">>]]

-----------------------------------------------------------------------------
(* preset.js: the invocation *)

PresetArgvSet ==
    {[help |-> h, list |-> l, save |-> sv, goto |-> g, delete |-> d, name |-> n] :
        h \in BOOLEAN, l \in BOOLEAN,
        sv \in {UndefinedV, Str(<<"h", "o", "m", "e">>)},
        g \in {UndefinedV, Str(<<"H", "O", "M", "E">>), Str(<<"9">>), Number(<<"1">>)},
        d \in {UndefinedV, Str(<<"2">>), Str(<<"n", "o", "p", "e">>)},
        n \in {UndefinedV, Str(<<"H", "o", "m", "e">>)}}

\* Lines 420, 454, 475: the answer to getPresets, as the script holds it.
Fetched(r) == [done |-> TRUE, threw |-> "none", value |-> r]

\* What the camera answers to getPresets: no Preset field, one preset as a
\* single record, two presets as an array, an array with a null element.
CameraPresets ==
    {[kind |-> "noPreset", Preset |-> NoPreset],
     [kind |-> "preset",
      Preset |-> [kind |-> "record", items |-> <<>>,
                  value |-> PresetRecord(TRUE, Str(<<"1">>), Str(<<"H", "o", "m", "e">>))]],
     [kind |-> "preset",
      Preset |-> [kind |-> "array", value |-> NullElement,
                  items |-> <<PresetRecord(TRUE, Str(<<"1">>), Str(<<"H", "o", "m", "e">>)),
                              PresetRecord(TRUE, Str(<<"2">>), Str(<<"d", "o", "o", "r">>))>>]],
     [kind |-> "preset",
      Preset |-> [kind |-> "array", value |-> NullElement,
                  items |-> <<PresetRecord(TRUE, Str(<<"2">>), Str(<<"d", "o", "o", "r">>)), NullElement>>]]}

\* Lines 418-489: the action taken: the first of list, save, goto, delete
\* that the command line gives.
\* The actions tried in the opposite order.
presetIntent_DeleteFirst ==
    IF ~Falsy(argv.delete) THEN "delete"
    ELSE IF ~Falsy(argv.goto) THEN "goto"
    ELSE IF ~Falsy(argv.save) THEN "save"
    ELSE IF argv.list THEN "list"
    ELSE "none"

presetIntent ==
    IF argv.list THEN "list"
    ELSE IF ~Falsy(argv.save) THEN "save"
    ELSE IF ~Falsy(argv.goto) THEN "goto"
    ELSE IF ~Falsy(argv.delete) THEN "delete"
    ELSE "none"

GetPresetsRequest == [op |-> "getPresets"]

\* Lines 443-447.
SetPresetRequest ==
    [op |-> "setPreset", PresetToken |-> argv.save.s,
     PresetName |-> IF ~Falsy(argv.name) THEN argv.name.s ELSE argv.save.s]

\* Lines 465-468 and 486: the request of the action act for the preset found.
PresetRequest(act, preset) ==
    [op |-> IF act = "goto" THEN "gotoPreset" ELSE "removePreset",
     PresetToken |-> preset.token]

ListReport(presets) == [op |-> "presets", presets |-> presets]

\* Lines 312-371 and 401: the synchronous start of the script, up to the
\* session initialisation it awaits.
presetStart ==
    /\ command = "preset"
    /\ pc = "start"
    /\ IF argv.help THEN Exit(0, "none") /\ UNCHANGED trace
       ELSE IF ~portValid THEN Exit(1, "Invalid port number") /\ UNCHANGED trace
       ELSE IF ~config.ipValid THEN Exit(1, "Invalid IP address") /\ UNCHANGED trace
       ELSE IF ~config.hasCredentials
       THEN Exit(1, "Username and password are required") /\ UNCHANGED trace
       ELSE IF presetIntent = "none"
       THEN Exit(1, "No action specified") /\ UNCHANGED trace
       ELSE /\ Issue(InitCall)
            /\ pc' = "init"
            /\ UNCHANGED <<exitCode, error>>
    /\ UNCHANGED <<argv, config, device, currentStatus, fs, proc, res, call, result, command, output, failures>>

\* Lines 401, 491-494: the session initialisation failed.
managePresets_initFailed ==
    /\ command = "preset"
    /\ pc = "init"
    /\ \E f \in Faults : Exit(1, f) /\ Fail(f)
    /\ UNCHANGED <<argv, config, device, trace, currentStatus, fs, proc, res, call, result, command, output>>

\* The first request of the action.
presetRequest ==
    IF presetIntent = "save" THEN SetPresetRequest ELSE GetPresetsRequest

\* The session checks left out: the request is sent whatever the camera has.
managePresets_connected_NoChecks ==
    /\ command = "preset"
    /\ pc = "init"
    /\ \E d \in Devices :
        /\ device' = d
        /\ Issue(presetRequest)
        /\ pc' = presetIntent
        /\ UNCHANGED <<exitCode, error>>
    /\ UNCHANGED <<argv, config, currentStatus, fs, proc, res, call, result, command, output, failures>>

\* Lines 401-416, then the dispatch: the session opened on camera d.
managePresets_connected ==
    /\ command = "preset"
    /\ pc = "init"
    /\ \E d \in Devices :
        /\ device' = d
        /\ IF ~d.ptz
           THEN Exit(1, "Camera does not support PTZ/presets") /\ UNCHANGED trace
           ELSE IF ~d.profile
           THEN Exit(1, "No media profile available") /\ UNCHANGED trace
           ELSE /\ Issue(presetRequest)
                /\ pc' = presetIntent
                /\ UNCHANGED <<exitCode, error>>
    /\ UNCHANGED <<argv, config, currentStatus, fs, proc, res, call, result, command, output, failures>>

\* Lines 420-436, 491-494: the list request answered: the presets are
\* extracted and printed.
managePresets_listed ==
    /\ command = "preset"
    /\ pc = "list"
    /\ \/ \E r \in CameraPresets :
            /\ result' = Fetched(r)
            /\ UNCHANGED failures
            /\ IF extractPresets(r).threw # "none"
               THEN Exit(1, extractPresets(r).threw) /\ UNCHANGED output
               ELSE Show(ListReport(extractPresets(r).value)) /\ Exit(0, "none")
       \/ /\ \E f \in Faults : Exit(1, f) /\ Fail(f)
          /\ UNCHANGED <<result, output>>
    /\ UNCHANGED <<argv, config, device, trace, currentStatus, fs, proc, res, call, command>>

\* Lines 443-449, 491-494: the save request answered.
managePresets_saved ==
    /\ command = "preset"
    /\ pc = "save"
    /\ \/ Exit(0, "none") /\ UNCHANGED failures
       \/ \E f \in Faults : Exit(1, f) /\ Fail(f)
    /\ UNCHANGED <<argv, config, device, trace, currentStatus, fs, proc, res, call, result, command, output>>

\* What is printed when the identifier names no preset: lines 459-461.
NotFoundReport(presets) == [op |-> "notFound", presets |-> presets]

\* The resolution left out: the request carries the identifier as typed.
managePresets_resolved_Unresolved(val, act) ==
    \/ \E r \in CameraPresets :
        /\ result' = Fetched(r)
        /\ UNCHANGED failures
        /\ Issue(PresetRequest(act, [token |-> val.s, name |-> <<>>]))
        /\ pc' = "acting"
        /\ UNCHANGED <<exitCode, error, output>>
    \/ /\ \E f \in Faults : Exit(1, f) /\ Fail(f)
       /\ UNCHANGED <<trace, result, output>>

\* Lines 454-468 and 475-486: the getPresets request of goto and delete
\* answered: the identifier is resolved against the list just fetched and the
\* request is sent with the token of the preset found.
managePresets_resolved(val, act) ==
    \/ \E r \in CameraPresets :
        /\ result' = Fetched(r)
        /\ UNCHANGED failures
        /\ IF extractPresets(r).threw # "none"
           THEN Exit(1, extractPresets(r).threw) /\ UNCHANGED <<trace, output>>
           ELSE LET presets == extractPresets(r).value
                    preset  == findPreset(presets, val)
                IN  IF ~preset.found
                    THEN /\ Show(NotFoundReport(presets))
                         /\ Exit(1, "Preset not found")
                         /\ UNCHANGED trace
                    ELSE /\ Issue(PresetRequest(act, preset.preset))
                         /\ pc' = "acting"
                         /\ UNCHANGED <<exitCode, error, output>>
    \/ /\ \E f \in Faults : Exit(1, f) /\ Fail(f)
       /\ UNCHANGED <<trace, result, output>>

\* Lines 454-468.
managePresets_gotoResolved ==
    /\ command = "preset"
    /\ pc = "goto"
    /\ managePresets_resolved(argv.goto, "goto")
    /\ UNCHANGED <<argv, config, device, currentStatus, fs, proc, res, call, command>>

\* The delete action without the resolution of its identifier.
managePresets_deleteResolved_Unresolved ==
    /\ command = "preset"
    /\ pc = "delete"
    /\ managePresets_resolved_Unresolved(argv.delete, "delete")
    /\ UNCHANGED <<argv, config, device, currentStatus, fs, proc, res, call, command>>

\* Lines 475-486.
managePresets_deleteResolved ==
    /\ command = "preset"
    /\ pc = "delete"
    /\ managePresets_resolved(argv.delete, "delete")
    /\ UNCHANGED <<argv, config, device, currentStatus, fs, proc, res, call, command>>

\* The goto or remove request sent again when it fails.
managePresets_acted_Retry ==
    /\ command = "preset"
    /\ pc = "acting"
    /\ \/ Exit(0, "none") /\ UNCHANGED <<failures, trace>>
       \/ /\ \E f \in Faults : Fail(f)
          /\ Len(trace) < 4
          /\ Issue(trace[Len(trace)])
          /\ UNCHANGED <<pc, exitCode, error>>
    /\ UNCHANGED <<argv, config, device, currentStatus, fs, proc, res, call, result, command, output>>

\* Lines 465-470, 486-488, 491-494: the goto or remove request answered.
managePresets_acted ==
    /\ command = "preset"
    /\ pc = "acting"
    /\ \/ Exit(0, "none") /\ UNCHANGED failures
       \/ \E f \in Faults : Exit(1, f) /\ Fail(f)
    /\ UNCHANGED <<argv, config, device, trace, currentStatus, fs, proc, res, call, result, command, output>>

InitPreset ==
    /\ pc = "start"
    /\ argv \in PresetArgvSet
    /\ config \in ConfigSet
    /\ device = NoDevice
    /\ trace = <<>>
    /\ exitCode = -1
    /\ error = "none"
    /\ currentStatus = "none"
    /\ fs = NoFile
    /\ proc = NoProc
    /\ res = NoRes
    /\ call = NoCall
    /\ result = NoResult
    /\ command = "preset"
    /\ output = <<>>
    /\ failures = {}

NextPreset ==
    \/ presetStart
    \/ managePresets_initFailed
    \/ managePresets_connected
    \/ managePresets_listed
    \/ managePresets_saved
    \/ managePresets_gotoResolved
    \/ managePresets_deleteResolved
    \/ managePresets_acted

SpecPreset == InitPreset /\ [][NextPreset]_vars

\* C24: a goto-preset or remove-preset request directly follows the getPresets
\* request of the invocation, whose answer has been received, and carries the
\* token of a preset of the list extracted from that answer; an identifier
\* that names no preset of the list ends the command with a non-zero exit
\* code and neither request.
PresetActs ==
    {i \in 1..Len(trace) : trace[i].op \in {"gotoPreset", "removePreset"}}

Identifier == IF presetIntent = "goto" THEN argv.goto ELSE argv.delete

C24_ResolvedBeforeActing ==
    command = "preset" =>
        /\ \A i \in PresetActs :
              /\ i > 1
              /\ trace[i - 1] = GetPresetsRequest
              /\ result.done
              /\ extractPresets(result.value).threw = "none"
              /\ \E k \in 1..Len(extractPresets(result.value).value) :
                    /\ extractPresets(result.value).value[k].token = trace[i].PresetToken
                    /\ presetMatches(extractPresets(result.value).value[k], Identifier.s)
        /\ (/\ result.done
            /\ presetIntent \in {"goto", "delete"}
            /\ extractPresets(result.value).threw = "none"
            /\ ~findPreset(extractPresets(result.value).value, Identifier).found)
           => /\ PresetActs = {}
              /\ pc = "exit"
              /\ exitCode # 0

C24_Witness ==
    /\ command = "preset"
    /\ pc = "exit"
    /\ exitCode = 0
    /\ \E i \in PresetActs :
          /\ trace[i].op = "removePreset"
          /\ trace[i].PresetToken = <<"2">>
    /\ Len(extractPresets(result.value).value) = 2

-----------------------------------------------------------------------------
(* status.js *)

StatusArgvSet == {[help |-> h] : h \in BOOLEAN}

\* Lines 648: presets.length, read on the answer of getPresets itself: the
\* answer is null or an object with the field data, neither has a length.
lengthOf(r) == UndefinedV

\* Lines 648-655: the presets the status command reports for the answer r:
\* those of the answer taken as an array, when it has a length above zero.
statusPresets(r) ==
    IF r.kind # "null" /\ lengthOf(r).t = "number" /\ lengthOf(r).s # <<"0">>
    THEN extractPresets(r).value
    ELSE <<>>

PresetsFailed == [op |-> "presetsFailed"]

\* Lines 524-563: the synchronous start of the script.
statusStart ==
    /\ command = "status"
    /\ pc = "start"
    /\ IF argv.help THEN Exit(0, "none") /\ UNCHANGED trace
       ELSE IF ~portValid THEN Exit(1, "Invalid port number") /\ UNCHANGED trace
       ELSE IF ~config.ipValid THEN Exit(1, "Invalid IP address") /\ UNCHANGED trace
       ELSE IF ~config.hasCredentials
       THEN Exit(1, "Username and password are required") /\ UNCHANGED trace
       ELSE /\ Issue(InitCall)
            /\ pc' = "init"
            /\ UNCHANGED <<exitCode, error>>
    /\ UNCHANGED <<argv, config, device, currentStatus, result, fs, proc, res, call, command, output, failures>>

\* Lines 563, 671-674.
checkStatus_initFailed ==
    /\ command = "status"
    /\ pc = "init"
    /\ \E f \in Faults : Exit(1, f) /\ Fail(f)
    /\ UNCHANGED <<argv, config, device, trace, currentStatus, result, fs, proc, res, call, command, output>>

\* Lines 563-619, 662-669: the session opened on camera d: its description
\* is printed, and its PTZ status is asked for when it has a PTZ service and
\* a current profile.
checkStatus_connected ==
    /\ command = "status"
    /\ pc = "init"
    /\ \E d \in Devices :
        /\ device' = d
        /\ IF d.ptz /\ d.profile
           THEN /\ Issue(StatusRequest)
                /\ pc' = "ptzStatus"
                /\ UNCHANGED <<exitCode, error>>
           ELSE Exit(0, "none") /\ UNCHANGED trace
    /\ UNCHANGED <<argv, config, currentStatus, result, fs, proc, res, call, command, output, failures>>

\* Lines 617-646: the status query answered or failed: the position is
\* reported, a failure inline, and the presets are asked for.
checkStatus_ptzStatus ==
    /\ command = "status"
    /\ pc = "ptzStatus"
    /\ \E s \in StatusPayloads : Show(position(s)) /\ Answered(s.kind)
    /\ Issue(GetPresetsRequest)
    /\ pc' = "presets"
    /\ UNCHANGED <<argv, config, device, exitCode, error, currentStatus, result, fs, proc, res, call, command>>

\* Lines 644-669: the presets query answered or failed: the presets are
\* reported, a failure inline, and the check is complete.
checkStatus_presets ==
    /\ command = "status"
    /\ pc = "presets"
    /\ \/ \E r \in CameraPresets :
            /\ result' = Fetched(r)
            /\ Show(ListReport(statusPresets(r)))
            /\ UNCHANGED failures
       \/ /\ \E f \in Faults : Show(PresetsFailed) /\ Fail(f)
          /\ UNCHANGED result
    /\ Exit(0, "none")
    /\ UNCHANGED <<argv, config, device, trace, currentStatus, fs, proc, res, call, command>>

InitStatus ==
    /\ pc = "start"
    /\ argv \in StatusArgvSet
    /\ config \in ConfigSet
    /\ device = NoDevice
    /\ trace = <<>>
    /\ exitCode = -1
    /\ error = "none"
    /\ currentStatus = "none"
    /\ fs = NoFile
    /\ proc = NoProc
    /\ res = NoRes
    /\ call = NoCall
    /\ result = NoResult
    /\ command = "status"
    /\ output = <<>>
    /\ failures = {}

NextStatus ==
    \/ statusStart
    \/ checkStatus_initFailed
    \/ checkStatus_connected
    \/ checkStatus_ptzStatus
    \/ checkStatus_presets

SpecStatus == InitStatus /\ [][NextStatus]_vars

-----------------------------------------------------------------------------
(* discover.js *)

MaxCameras == 2

DiscoverArgvSet == {[help |-> h] : h \in BOOLEAN}

ProbeRequest == [op |-> "startProbe"]

CamerasReport(n) == [op |-> "cameras", count |-> n]

\* Lines 24-57, 83-86: the synchronous start of the script: the timer is set
\* and the probe started.
discoverStart ==
    /\ command = "discover"
    /\ pc = "start"
    /\ IF argv.help THEN Exit(0, "none") /\ UNCHANGED <<trace, failures>>
       ELSE \/ /\ Issue(ProbeRequest)
               /\ pc' = "probing"
               /\ UNCHANGED <<exitCode, error, failures>>
            \/ /\ \E f \in Faults : Exit(1, f) /\ Fail(f)
               /\ UNCHANGED trace
    /\ UNCHANGED <<argv, config, device, currentStatus, result, fs, proc, res, call, command, output>>

\* Lines 51-54: the timer fires before the probe has settled.
discover_timeout ==
    /\ command = "discover"
    /\ pc = "probing"
    /\ Exit(0, "none")
    /\ UNCHANGED <<argv, config, device, trace, currentStatus, result, fs, proc, res, call, command, output, failures>>

\* Lines 57-78: the probe found n cameras.
discover_found ==
    /\ command = "discover"
    /\ pc = "probing"
    /\ \E n \in 0..MaxCameras : Show(CamerasReport(n))
    /\ Exit(0, "none")
    /\ UNCHANGED <<argv, config, device, trace, currentStatus, result, fs, proc, res, call, command, failures>>

\* Lines 79-82: the probe failed.
discover_failed ==
    /\ command = "discover"
    /\ pc = "probing"
    /\ \E f \in Faults : Exit(1, f) /\ Fail(f)
    /\ UNCHANGED <<argv, config, device, trace, currentStatus, result, fs, proc, res, call, command, output>>

InitDiscover ==
    /\ pc = "start"
    /\ argv \in DiscoverArgvSet
    /\ config \in ConfigSet
    /\ device = NoDevice
    /\ trace = <<>>
    /\ exitCode = -1
    /\ error = "none"
    /\ currentStatus = "none"
    /\ fs = NoFile
    /\ proc = NoProc
    /\ res = NoRes
    /\ call = NoCall
    /\ result = NoResult
    /\ command = "discover"
    /\ output = <<>>
    /\ failures = {}

NextDiscover ==
    \/ discoverStart
    \/ discover_timeout
    \/ discover_found
    \/ discover_failed

-----------------------------------------------------------------------------
(* The five commands: an invocation runs one of them. *)

InitCommands ==
    \/ InitPtz
    \/ InitSnapshot
    \/ InitPreset
    \/ InitStatus
    \/ InitDiscover

NextCommands ==
    \/ ptzStart
    \/ controlPTZ_connected
    \/ controlPTZ_initFailed
    \/ controlPTZ_stopped
    \/ controlPTZ_home
    \/ controlPTZ_center
    \/ controlPTZ_moving
    \/ controlPTZ_autoStop
    \/ controlPTZ_autoStopped
    \/ controlPTZ_absolute
    \/ controlPTZ_moved
    \/ controlPTZ_settled
    \/ controlPTZ_requeried
    \/ controlPTZ_shown
    \/ snapshotStart
    \/ captureSnapshot_initFailed
    \/ captureViaOnvif_connected
    \/ fetchUrl_response
    \/ fetchUrl_data
    \/ fetchUrl_error
    \/ fetchUrl_timeout
    \/ captureViaOnvif_empty
    \/ captureViaOnvif_saved
    \/ captureViaOnvif_writeFailed
    \/ captureViaRtsp_connected
    \/ ffmpeg_write
    \/ ffmpeg_exit
    \/ captureViaRtsp_end
    \/ captureViaRtsp_error
    \/ captureViaRtsp_timeout
    \/ presetStart
    \/ managePresets_initFailed
    \/ managePresets_connected
    \/ managePresets_listed
    \/ managePresets_saved
    \/ managePresets_gotoResolved
    \/ managePresets_deleteResolved
    \/ managePresets_acted
    \/ statusStart
    \/ checkStatus_initFailed
    \/ checkStatus_connected
    \/ checkStatus_ptzStatus
    \/ checkStatus_presets
    \/ discoverStart
    \/ discover_timeout
    \/ discover_found
    \/ discover_failed

SpecCommands == InitCommands /\ [][NextCommands]_vars

\* The reports printed so far.
Reports == {output[i] : i \in 1..Len(output)}

\* C26: a position report carries three numbers.
C26_AsStated ==
    \A r \in Reports :
        r.op = "report" =>
            /\ r.kind \in {"position", "unavailable", "failed"}
            /\ r.kind = "position" => ~r.pan.nan /\ ~r.tilt.nan /\ ~r.zoom.nan

\* C25: the presets a command reports for an answer of getPresets are the
\* records of the list extracted from that answer, in the status command as
\* in the list action of the preset command.
PresetConsumers == {"status", "preset"}

C25_AsStated ==
    (/\ command \in PresetConsumers
     /\ pc = "exit"
     /\ result.done
     /\ extractPresets(result.value).threw = "none")
    => \A r \in Reports :
          r.op = "presets" => r.presets = extractPresets(result.value).value

\* The device request the command sent last failed: no later request made up
\* for it.
RequestFailed == \E f \in failures : f.at = Len(trace)

SessionCommands == {"ptz", "preset", "snapshot", "status"}

\* An argument error of the command: a speed or duration that is not a
\* number of its range (ptz), no action flag (preset), no output path or an
\* unknown capture method (snapshot).
ArgumentError ==
    \/ command = "ptz" /\ (speedErr # Null \/ (hasDuration /\ durErr # Null))
    \/ command = "preset" /\ presetIntent = "none"
    \/ command = "snapshot" /\ (~argv.output \/ argv.method \notin {"rtsp", "onvif"})

\* A configuration error: a port the configuration loader rejects, or one
\* that is not a decimal number from 1 to 65535; an address that is missing
\* or malformed; missing credentials.
ConfigError(portOk) == ~portOk \/ ~config.ipValid \/ ~config.hasCredentials

\* C28: a command started with a configuration or argument error has ended
\* with a non-zero exit code and without any call, the session
\* initialisation included, once it has taken its first step.
C28_AsStated ==
    (/\ command \in SessionCommands
     /\ ~argv.help
     /\ pc # "start"
     /\ (ConfigError(IsPortText(config.port)) \/ ArgumentError))
    => /\ pc = "exit"
       /\ exitCode # 0
       /\ trace = <<>>

\* The same with the ports the configuration loader rejects.
C28_RejectedBeforeSession ==
    (/\ command \in SessionCommands
     /\ ~argv.help
     /\ pc # "start"
     /\ (ConfigError(portValid) \/ ArgumentError))
    => /\ pc = "exit"
       /\ exitCode # 0
       /\ trace = <<>>

\* The requests whose failure ends the command.
FatalOps ==
    {"continuousMove", "absoluteMove", "stop", "setPreset", "gotoPreset", "removePreset",
     "getPresets"}

\* C29: in the ptz and preset commands, when a continuousMove, absoluteMove,
\* stop, setPreset, gotoPreset, removePreset or getPresets request has
\* failed, it is the last call of the invocation (nothing is sent after it,
\* the request itself included), and the command has ended with a non-zero
\* exit code and that failure as its error.
C29_NoRetry ==
    command \in {"ptz", "preset"} =>
        \A f \in failures :
            trace[f.at].op \in FatalOps =>
                /\ f.at = Len(trace)
                /\ pc = "exit"
                /\ exitCode # 0
                /\ error = f.fault

\* A goto-preset request failed after its getPresets succeeded.
C29_Witness ==
    /\ command = "preset"
    /\ pc = "exit"
    /\ Len(trace) = 3
    /\ trace[3].op = "gotoPreset"
    /\ failures = {[at |-> 3, fault |-> "ECONNREFUSED"]}

\* The requests to the PTZ service: moves, stops, status and preset requests.
PtzOps ==
    {"continuousMove", "absoluteMove", "stop", "gotoHomePosition", "getStatus",
     "setPreset", "gotoPreset", "removePreset", "getPresets"}

InitFailed == \E f \in failures : f.at = 1

\* C30: a command initialises its session at most once, as its first call;
\* the ptz and preset commands send a request to the PTZ service only after
\* an initialisation that succeeded, on a camera with a PTZ service and a
\* current profile, and otherwise end with a non-zero exit code and no call
\* but the initialisation.
C30_OneSessionThenRequests ==
    command \in SessionCommands =>
        /\ Count("init") <= 1
        /\ trace # <<>> => trace[1] = InitCall
        /\ command \in {"ptz", "preset"} =>
              /\ TraceOps \cap PtzOps # {} => ~InitFailed /\ SessionOpen
              /\ (trace # <<>> /\ pc # "init" /\ ~SessionOpen) =>
                    /\ pc = "exit"
                    /\ exitCode # 0
                    /\ trace = <<InitCall>>
                    /\ InitFailed <=> ~device.connected

\* The preset command on a camera without a PTZ service.
C30_Witness ==
    /\ command = "preset"
    /\ pc = "exit"
    /\ exitCode = 1
    /\ device.connected /\ ~device.ptz
    /\ trace = <<InitCall>>

-----------------------------------------------------------------------------
(* Further properties of the ptz command (SpecPtz) *)

\* The faults that tell of the connection or the credentials, not of a
\* capability the camera lacks.
ConnectivityFaults == {"ECONNREFUSED"}

\* C31: a home request that failed for a connectivity reason is the last
\* call of the command, which has ended with a non-zero exit code.
C31_AsStated ==
    command = "ptz" =>
        \A f \in failures :
            (trace[f.at].op = "gotoHomePosition" /\ f.fault \in ConnectivityFaults) =>
                /\ f.at = Len(trace)
                /\ pc = "exit"
                /\ exitCode # 0

FailedAt(i) == \E f \in failures : f.at = i

\* The calls of the invocation that are requests to the camera, in order.
Requests == SelectSeq(trace, LAMBDA c : c.op # "wait")

\* C32: in the ptz command no failure of a status query ends the command
\* with an error.  In an absolute move the requests are, in order, the
\* initialisation, a status query, one absoluteMove and a second status
\* query, and once the absoluteMove has succeeded the command ends with exit
\* code 0 whether the second query fails or not.  With no intent the command
\* sends one status query, reports a position, its absence or the failure of
\* the query, and ends with exit code 0.
C32_StatusFailuresNotFatal ==
    (command = "ptz" /\ SessionOpen) =>
        /\ \A f \in failures : trace[f.at].op = "getStatus" => error # f.fault
        /\ (Intent = "absolute" /\ pc = "exit") =>
              \/ /\ Len(Requests) = 2
                 /\ exitCode = 1
                 /\ error \in {"Pan", "Tilt", "Zoom"}
              \/ /\ Len(Requests) = 3
                 /\ Requests[3].op = "absoluteMove"
                 /\ FailedAt(3)
                 /\ exitCode = 1
              \/ /\ Len(Requests) = 4
                 /\ <<Requests[2].op, Requests[3].op, Requests[4].op>>
                        = <<"getStatus", "absoluteMove", "getStatus">>
                 /\ ~FailedAt(3)
                 /\ exitCode = 0
        /\ (Intent = "none" /\ pc = "exit") =>
              /\ trace = <<InitCall, StatusRequest>>
              /\ exitCode = 0
              /\ Len(output) = 1
              /\ FailedAt(2) <=> output[1].kind = "failed"

\* An absolute move whose second status query failed, ended with exit code 0.
C32_Witness ==
    /\ command = "ptz"
    /\ Intent = "absolute"
    /\ pc = "exit"
    /\ exitCode = 0
    /\ Len(trace) = 5
    /\ trace[3].op = "absoluteMove"
    /\ FailedAt(5)

\* C33: a continuous move carries the timeout hint exactly when a duration
\* was supplied; without a duration the command sends the initialisation and
\* one continuousMove and nothing else, no stop and no wait, and once the
\* move is accepted it has ended with exit code 0 and the camera moving.
C33_NoDurationNoStop ==
    (command = "ptz" /\ SessionOpen /\ Intent = "continuous") =>
        /\ \A i \in 1..Len(trace) :
              trace[i].op = "continuousMove" => (trace[i].hasTimeout <=> hasDuration)
        /\ ~hasDuration =>
              /\ trace = <<InitCall, moveParams>>
              /\ ~trace[2].hasTimeout
              /\ Count("continuousMove") = 1
              /\ Count("stop") = 0
              /\ pc \in {"continuous", "exit"}
              /\ (pc = "exit" /\ ~FailedAt(2)) => exitCode = 0 /\ device.moving
              /\ (pc = "exit" /\ FailedAt(2)) => exitCode = 1

\* A pan left without duration, accepted: the camera is left moving.
C33_Witness ==
    /\ command = "ptz"
    /\ argv.left /\ ~hasDuration
    /\ pc = "exit" /\ exitCode = 0
    /\ Len(trace) = 2
    /\ trace[2].op = "continuousMove" /\ ~trace[2].hasTimeout
    /\ device.moving

\* What the command line asks for an axis: the number typed, or the
\* camera's as the status query gave it.
Asked(text, current) == IF text # Undefined THEN parseFloat(text) ELSE current

\* C35: in an absolute move, once the status query is answered: when the
\* pan or tilt asked for is not a number of [-1,1], or the zoom not one of
\* [0,1], no absoluteMove is ever sent and the command has ended with a
\* non-zero exit code; an absoluteMove that is sent carries the three values
\* asked for, unchanged.
C35_NeverClamped ==
    (command = "ptz" /\ SessionOpen /\ Intent = "absolute" /\ currentStatus # "none") =>
        LET cur == currentPosition(currentStatus)
            x   == Asked(argv.pan, cur.x)
            y   == Asked(argv.tilt, cur.y)
            z   == Asked(argv.zoom, cur.z)
        IN  /\ (OutOfRange(x, -10, 10) \/ OutOfRange(y, -10, 10) \/ OutOfRange(z, 0, 10)) =>
                  /\ Count("absoluteMove") = 0
                  /\ pc = "exit"
                  /\ exitCode # 0
            /\ \A i \in 1..Len(trace) :
                  trace[i].op = "absoluteMove" =>
                      trace[i].Position = [x |-> x.v, y |-> y.v, z |-> z.v]

\* A pan of 1.5 is refused after the status query, nothing is moved.
C35_Witness ==
    /\ command = "ptz"
    /\ Intent = "absolute"
    /\ argv.pan = <<"1", ".", "5">>
    /\ pc = "exit"
    /\ exitCode = 1
    /\ trace = <<InitCall, StatusRequest>>

\* C39: the timeout hint of a continuousMove is a whole number of seconds,
\* at least 1.
C39_AsStated ==
    command = "ptz" =>
        \A i \in 1..Len(trace) :
            (trace[i].op = "continuousMove" /\ trace[i].hasTimeout) =>
                trace[i].Timeout >= 1

-----------------------------------------------------------------------------
(* Further properties of the shared functions (SpecLib) *)

\* C34: the configuration error of a rejected port names the raw value that
\* was resolved from the chain of sources.
C34_AsStated ==
    (call.fn = "loadConfig" /\ result.done /\ result.threw = "Invalid port number") =>
        result.named = FirstSupplied(call.in)

-----------------------------------------------------------------------------
(* Further properties of the preset command (SpecPreset) *)

\* The requests that create, recall or remove a preset.
ActionOps == {"setPreset", "gotoPreset", "removePreset"}

Given(v) == ~Falsy(v)

\* C37: an invocation of the preset command sends at most one of setPreset,
\* gotoPreset and removePreset, and the one it sends is that of the first
\* action given in the order list, save, goto, delete: none with the list
\* flag, setPreset only for save, gotoPreset only for a goto without save,
\* removePreset only for a delete without save and goto.
C37_OneActionInOrder ==
    command = "preset" =>
        /\ Cardinality({i \in 1..Len(trace) : trace[i].op \in ActionOps}) <= 1
        /\ argv.list => TraceOps \cap ActionOps = {}
        /\ "setPreset" \in TraceOps => ~argv.list /\ Given(argv.save)
        /\ "gotoPreset" \in TraceOps =>
              ~argv.list /\ ~Given(argv.save) /\ Given(argv.goto)
        /\ "removePreset" \in TraceOps =>
              ~argv.list /\ ~Given(argv.save) /\ ~Given(argv.goto) /\ Given(argv.delete)
        /\ (Given(argv.save) /\ ~argv.list) => TraceOps \subseteq {"init", "setPreset"}

\* The list flag with a save and a delete: the presets are listed, nothing
\* is saved or removed.
C37_Witness ==
    /\ command = "preset"
    /\ argv.list /\ Given(argv.save) /\ Given(argv.delete)
    /\ pc = "exit" /\ exitCode = 0
    /\ trace = <<InitCall, GetPresetsRequest>>

-----------------------------------------------------------------------------
(* Further properties of the snapshot command (SpecSnapshot) *)

\* C38: a step that ends the command in failure while the file that was at
\* the destination before the command started is still there, untouched,
\* leaves that file in place.
C38_AsStated ==
    [][(command = "snapshot" /\ fs = OldFile /\ pc' = "exit" /\ exitCode' # 0)
          => fs' = OldFile]_vars

\* Line 244: the timer set beside the transcoding process is a timer of the
\* event loop: it fires once it is due, if the command is still running.
SpecSnapshotFair == SpecSnapshot /\ WF_vars(captureViaRtsp_timeout)

Transcoding == command = "snapshot" /\ "ffmpeg" \in TraceOps

\* C40: once the transcoding process has been started the command
\* eventually exits, whatever the process does; when it exits while the
\* process has neither ended nor failed, the timer has fired, the process
\* has been killed and the exit code is not 0.
C40_EventuallyExits ==
    /\ [](Transcoding => <>(pc = "exit"))
    /\ []((Transcoding /\ pc = "exit" /\ proc.state \notin {"ended", "failed"}) =>
            /\ proc.state = "killed"
            /\ exitCode # 0
            /\ trace[Len(trace)] = [op |-> "kill", signal |-> "SIGKILL"]
            /\ trace[Len(trace) - 1].op = "timeout")

\* The process was still running when the timer fired.
C40_Witness ==
    /\ Transcoding
    /\ pc = "exit"
    /\ proc.state = "killed"
    /\ exitCode = 1

====
